---- MODULE Spec2Model ----
(***************************************************************************)
(* Lake Tisza landscape calculator.                                        *)
(*                                                                         *)
(* Two state machines share this module:                                   *)
(*   - the patch scan: the row-major scan of a classified raster block     *)
(*     that seeds a breadth-first flood fill on every unvisited            *)
(*     non-background cell (Metrics/Helper.py and the metric classes       *)
(*     under Metrics/MetricImplementations);                               *)
(*   - the batch worker: MetricCalculationWorker.run, which evaluates      *)
(*     selected layers x selected metrics on a background thread           *)
(*     (Controllers/BackgroundTaskWorker.py).                              *)
(***************************************************************************)
EXTENDS Integers, Sequences, FiniteSets, TLC

(***************************************************************************)
(* Bounds of the model.                                                    *)
(***************************************************************************)
Height == 2
Width == 3
MaxClass == 2
PixelWidth == 2
PixelHeight == 3
MaxLayers == 3
MaxMetrics == 2
MaxRuns == 2
MaxRows == 3
ManyRows == 20
LastPort == 8004
MaxExports == 4

\* GeoJSONExporter._server_port = 8000
FirstPort == 8000
\* GeoJSONExporter._server = None
NoServer == 0

VARIABLES
    \* ---- patch scan ----
    block,              \* provider.block(1, extent, width, height): cell -> value
    metricIx,           \* index into ScanMetrics of the metric being computed
    pc,                 \* "idle" | "scan" | "bfs"
    visited,            \* visited[row][col]
    row, col,           \* position of the row-major scan
    queue,              \* the deque of the running bfs call
    class_value,        \* class_value argument of the running bfs call
    patch_size,         \* patch_size of bfs (MeanPatchArea.bfs, Helper.bfs)
    pixels,             \* pixels of bfs_collect
    class_patch_counts, \* NumberOfPatches: class -> count
    class_patch_areas,  \* Mean/MedianPatchArea: class -> list of areas
    class_centroids,    \* NearestNeighbourDistance: class -> list of centroids
    returned,           \* metric name -> value returned by calculateMetric
    is_geographic,      \* layer.crs().isGeographic()
    layer_ops,          \* what the calls did with a layer: [metric, op, input]
    pixel_size_y,       \* layer.rasterUnitsPerPixelY()
    \* ---- history of the running scan (not program state) ----
    patches,            \* the patches discovered so far: [cls, cells, size]
    patch_cells,        \* cells dequeued by the running bfs call
    enq, deq            \* per cell: times enqueued / dequeued in this scan

scanVars == <<block, metricIx, pc, visited, row, col, queue, class_value,
              patch_size, pixels, class_patch_counts, class_patch_areas,
              class_centroids, returned, patches, patch_cells, enq, deq,
              is_geographic, layer_ops, pixel_size_y>>

layerVars == <<is_geographic, layer_ops, pixel_size_y>>

VARIABLES
    \* ---- MetricCalculationWorker ----
    selected_layers,    \* self.selected_layers: the layers' names, in caller order
    selected_metrics,   \* self.selected_metrics: the metric names, in caller order
    is_cancelled,       \* self._is_cancelled
    wpc,                \* "init" | "layers" | "metrics" | "unit" | "done"
    li, mi,             \* position of "for layer" / "for metric_func, metric_name"
    layer_name,         \* layer_name
    land_cover_mapping_func, \* self.land_cover_mapping_func: what it returns
    land_cover_mapping, \* land_cover_mapping
    layer_metrics,      \* layer_metrics
    data_to_write,      \* data_to_write
    metric_data,        \* metric_data
    total_tasks,        \* total_tasks
    current_task,       \* current_task
    emitted,            \* the signals emitted so far, in order
    \* ---- history of the run (not program state) ----
    units,              \* the (layer, metric) units whose metric function was invoked
    cancel_observed,    \* a check of the flag has found it set
    run_no,             \* which execution of run() this is
    previous,           \* the signals the execution before this one emitted
    memo                \* (layer, metric) -> what metric_func(layer) did

workerVars == <<selected_layers, selected_metrics, land_cover_mapping_func,
                is_cancelled, wpc, li, mi,
                layer_name, land_cover_mapping, layer_metrics, data_to_write,
                metric_data, total_tasks, current_task, emitted, units,
                cancel_observed, run_no, previous, memo>>

rerunVars == <<run_no, previous, memo>>

VARIABLES
    \* ---- ExcelExportWorker ----
    export_rows,        \* len(self.data_to_write)
    export_cancelled,   \* self._is_cancelled
    xpc,                \* "start" | "create" | "headers" | "rows" | "done"
    idx,                \* idx of "for idx, row_data in enumerate(...)"
    workbook,           \* "none" | "open" | "closed"
    export_emitted,     \* the signals emitted so far, in order
    \* ---- history of the export (not program state) ----
    written,            \* the rows written to the worksheet
    flag_seen           \* "no", or which cancel check found the flag set:
                        \* "before" or "after" the workbook was created

exportVars == <<export_rows, export_cancelled, xpc, idx, workbook,
                export_emitted, written, flag_seen>>

VARIABLES
    \* ---- GeoJSONExporter's local server ----
    server_port,        \* GeoJSONExporter._server_port
    server,             \* GeoJSONExporter._server: None, or the port it is bound to
    spc,                \* "idle" | "try": start_local_server is about to bind
    depth,              \* nested calls of start_local_server
    server_result,      \* what the last start_local_server returned
    \* ---- history (not program state) ----
    tried,              \* the ports the running start_local_server has tried
    bound_ports,        \* the ports servers were bound to, in order
    exports             \* calls of export_and_generate_map so far

serverVars == <<server_port, server, spc, depth, server_result, tried,
                bound_ports, exports>>

serviceVars == <<exportVars, serverVars>>

vars == <<scanVars, workerVars, serviceVars>>

(***************************************************************************)
(* The raster block.                                                       *)
(***************************************************************************)
\* block.value() of a cell without data is None
Null == 0 - 1

Classes == 1..MaxClass
Values == {Null, 0} \cup Classes
Cells == (0..(Height - 1)) \X (0..(Width - 1))

height == Height
width == Width

EmptyDict == [k \in {} |-> 0]

\* d[k] = v on a Python dict
DictSet(d, k, v) == [x \in (DOMAIN d) \cup {k} |-> IF x = k THEN v ELSE d[x]]

NoVisited == [cell \in Cells |-> FALSE]
ZeroCount == [cell \in Cells |-> 0]

\* orthogonal neighbours only
directions4 == << <<0 - 1, 0>>, <<0, 0 - 1>>, <<0, 1>>, <<1, 0>> >>

directions ==
    << <<0 - 1, 0 - 1>>, <<0 - 1, 0>>, <<0 - 1, 1>>,
       <<0, 0 - 1>>,                   <<0, 1>>,
       <<1, 0 - 1>>,     <<1, 0>>,     <<1, 1>> >>

\* the metrics whose calculateMetric scans the block with a bfs
ScanMetrics ==
    << "Number of Patches", "Mean Patch Area", "Median Patch Area",
       "Nearest Neighbour Distance" >>

metric == IF metricIx \in 1..Len(ScanMetrics) THEN ScanMetrics[metricIx] ELSE "none"

\* value == 0 alone
IsBackgroundZeroOnly(value) == value = 0

\* value is None or value == 0
IsBackground(value) == value = Null \/ value = 0

\* any cell with data
NeighbourMatchAnyClass(neighbor_value, class_value_) ==
    neighbor_value # Null /\ neighbor_value # 0

\* neighbor_value == class_value
NeighbourMatch(neighbor_value, class_value_) == neighbor_value = class_value_

\* 0 <= nr < height and 0 <= nc < width
InGrid(nr, nc) == 0 <= nr /\ nr < height /\ 0 <= nc /\ nc < width

\* the flag is left as it is
MarkVisitedNot(vis, cell) == vis

\* visited[nr][nc] = True on enqueue
MarkVisited(vis, cell) == [vis EXCEPT ![cell] = TRUE]

\* the for-loop over directions of one dequeued cell (r, c): the visited grid
\* and the queue after directions i.. have been examined
RECURSIVE Expand(_, _, _, _, _, _)
Expand(i, vis, q, r, c, cv) ==
    IF i > Len(directions) THEN [visited |-> vis, queue |-> q]
    ELSE LET nr == r + directions[i][1]
             nc == c + directions[i][2]
         IN IF InGrid(nr, nc) /\ ~vis[<<nr, nc>>]
               /\ NeighbourMatch(block[<<nr, nc>>], cv)
            THEN Expand(i + 1, MarkVisited(vis, <<nr, nc>>),
                        Append(q, <<nr, nc>>), r, c, cv)
            ELSE Expand(i + 1, vis, q, r, c, cv)

(***************************************************************************)
(* Geometry of the layer: extent.width() / width and extent.height() /     *)
(* height, in metres.  Areas are kept in m2: the division by 1e6 that      *)
(* turns them into km2 is the same constant factor on every area.          *)
(* Coordinates are kept doubled, so that a cell centre (c + 0.5) is the    *)
(* integer 2c + 1.                                                         *)
(***************************************************************************)
pixel_width == PixelWidth
pixel_height == PixelHeight
pixel_area == pixel_width * pixel_height

Abs(x) == IF x < 0 THEN 0 - x ELSE x

\* (extent.xMinimum(), extent.width() / width, 0,
\*  extent.yMaximum(), 0, -extent.height() / height)
geotransform == <<0, pixel_width, 0, height * pixel_height, 0, 0 - pixel_height>>

\* x = geotransform[0] + (c + 0.5) * geotransform[1]
\* y = geotransform[3] - (r + 0.5) * abs(geotransform[5]), both doubled
PixelCentre(r, c) ==
    << 2 * geotransform[1] + (2 * c + 1) * geotransform[2],
       2 * geotransform[4] - (2 * r + 1) * Abs(geotransform[6]) >>

RECURSIVE SumSeq(_)
SumSeq(s) == IF s = <<>> THEN 0 ELSE Head(s) + SumSeq(Tail(s))

RECURSIVE Insert(_, _)
Insert(x, s) ==
    IF s = <<>> THEN <<x>>
    ELSE IF x <= Head(s) THEN <<x>> \o s
    ELSE <<Head(s)>> \o Insert(x, Tail(s))

RECURSIVE Sorted(_)
Sorted(s) == IF s = <<>> THEN <<>> ELSE Insert(Head(s), Sorted(Tail(s)))

\* sum(areas) / len(areas) if areas else 0.0, as the fraction <<num, den>>
Mean(areas) == IF Len(areas) > 0 THEN <<SumSeq(areas), Len(areas)>> ELSE <<0, 1>>

\* statistics.median(areas), as the fraction <<num, den>>
Median(areas) ==
    LET s == Sorted(areas)
        n == Len(s)
    IN IF n % 2 = 1 THEN <<s[(n + 1) \div 2], 1>>
       ELSE <<s[n \div 2] + s[n \div 2 + 1], 2>>

\* centroid = (sum(xs) / len(xs), sum(ys) / len(ys)), as <<sum xs, sum ys, len>>
Centroid(pix) ==
    << SumSeq([i \in 1..Len(pix) |-> pix[i][1]]),
       SumSeq([i \in 1..Len(pix) |-> pix[i][2]]), Len(pix) >>

\* math.hypot(x1 - x2, y1 - y2) squared, as the fraction <<num, den>>
DistSq(c1, c2) ==
    << (c1[1] * c2[3] - c2[1] * c1[3]) * (c1[1] * c2[3] - c2[1] * c1[3])
       + (c1[2] * c2[3] - c2[2] * c1[3]) * (c1[2] * c2[3] - c2[2] * c1[3]),
       (c1[3] * c2[3]) * (c1[3] * c2[3]) >>

FracLess(a, b) == a[1] * b[2] < b[1] * a[2]

\* the inner loop over j of NearestNeighbourDistance: the least squared distance
\* from centroids[i] to another centroid of the list, <<>> when there is none
\* variant: the loop over j does not skip i == j
RECURSIVE MinDistWithSelf(_, _, _, _)
MinDistWithSelf(centroids, i, j, best) ==
    IF j > Len(centroids) THEN best
    ELSE LET d == DistSq(centroids[i], centroids[j])
         IN IF best = <<>> \/ FracLess(d, best)
            THEN MinDistWithSelf(centroids, i, j + 1, d)
            ELSE MinDistWithSelf(centroids, i, j + 1, best)

RECURSIVE MinDist(_, _, _, _)
MinDist(centroids, i, j, best) ==
    IF j > Len(centroids) THEN best
    ELSE IF i = j THEN MinDist(centroids, i, j + 1, best)
    ELSE LET d == DistSq(centroids[i], centroids[j])
         IN IF best = <<>> \/ FracLess(d, best)
            THEN MinDist(centroids, i, j + 1, d)
            ELSE MinDist(centroids, i, j + 1, best)

\* distances_km of one class: the nearest squared distances of its patches,
\* in scan order (the square root and the mean over the list are not taken)
RECURSIVE NearestOf(_, _)
NearestOf(centroids, i) ==
    IF i > Len(centroids) THEN <<>>
    ELSE LET m == MinDist(centroids, i, 1, <<>>)
         IN (IF m = <<>> THEN <<>> ELSE <<m>>) \o NearestOf(centroids, i + 1)

(***************************************************************************)
(* The patch scan.                                                         *)
(***************************************************************************)
\* the worker before start(): nothing selected, nothing emitted
\* no export is run
ExportIdle ==
    /\ export_rows = 0
    /\ export_cancelled = FALSE
    /\ xpc = "start"
    /\ idx = 0
    /\ workbook = "none"
    /\ export_emitted = <<>>
    /\ written = 0
    /\ flag_seen = "no"

\* lines 44-46: the class attributes as the module is imported
ServerIdle ==
    /\ server_port = FirstPort
    /\ server = NoServer
    /\ spc = "idle"
    /\ depth = 0
    /\ server_result = "none"
    /\ tried = <<>>
    /\ bound_ports = <<>>
    /\ exports = 0

WorkerIdle ==
    /\ selected_layers = <<>>
    /\ selected_metrics = <<>>
    /\ land_cover_mapping_func = <<>>
    /\ is_cancelled = FALSE
    /\ wpc = "init"
    /\ li = 1
    /\ mi = 1
    /\ layer_name = ""
    /\ land_cover_mapping = <<>>
    /\ layer_metrics = <<>>
    /\ data_to_write = <<>>
    /\ metric_data = <<>>
    /\ total_tasks = 0
    /\ current_task = 0
    /\ emitted = <<>>
    /\ units = <<>>
    /\ cancel_observed = FALSE
    /\ run_no = 1
    /\ previous = <<>>
    /\ memo = EmptyDict

BlockInit ==
    /\ WorkerIdle
    /\ ExportIdle
    /\ ServerIdle
    /\ \E nz \in SUBSET Cells :
         \E f \in [nz -> Values \ {0}] :
            block = [cell \in Cells |-> IF cell \in nz THEN f[cell] ELSE 0]
    /\ metricIx = 1
    /\ pc = "idle"
    /\ visited = NoVisited
    /\ row = 0
    /\ col = 0
    /\ queue = <<>>
    /\ class_value = 0
    /\ patch_size = 0
    /\ pixels = <<>>
    /\ class_patch_counts = EmptyDict
    /\ class_patch_areas = EmptyDict
    /\ class_centroids = EmptyDict
    /\ returned = EmptyDict
    /\ patches = <<>>
    /\ patch_cells = {}
    /\ enq = ZeroCount
    /\ deq = ZeroCount
    /\ layer_ops = <<>>

\* a layer in a projected CRS: no call reprojects it.  The block a geographic
\* layer yields after reprojection is one of the blocks drawn here.
ScanInit == BlockInit /\ is_geographic = FALSE /\ pixel_size_y = PixelHeight

\* a layer in any CRS
LayerInit == BlockInit /\ is_geographic \in BOOLEAN /\ pixel_size_y = PixelHeight

\* a layer whose rasterUnitsPerPixelY() has either sign
CellSizeInit ==
    /\ BlockInit
    /\ is_geographic = FALSE
    /\ pixel_size_y \in {PixelHeight, 0 - PixelHeight}

\* one step of a call on a layer: "gdal:warpreproject", "gdal:polygonize" or
\* "block" (provider.block), on the layer passed in or on the reprojected one
LayerOp(name, op, input) == [metric |-> name, op |-> op, input |-> input]

\* temp_layer = layer
\* if layer.crs().isGeographic():
\*     temp_layer = processing.run("gdal:warpreproject", {'INPUT': layer, ...})
Reproject(name) ==
    IF is_geographic THEN <<LayerOp(name, "gdal:warpreproject", "layer")>>
    ELSE <<>>

temp_layer == IF is_geographic THEN "reprojected" ELSE "layer"

\* the reprojection, then temp_layer.dataProvider().block(...)
BlockOfTempLayer(name) ==
    Reproject(name) \o <<LayerOp(name, "block", temp_layer)>>

\* layer.dataProvider().block(...)
BlockOfLayer(name) == <<LayerOp(name, "block", "layer")>>

\* calculateMetric up to the scan loops: a fresh visited grid and result dict
CallMetric ==
    /\ pc = "idle"
    /\ metricIx <= Len(ScanMetrics)
    /\ pc' = "scan"
    /\ visited' = NoVisited
    /\ row' = 0
    /\ col' = 0
    /\ class_patch_counts' = EmptyDict
    /\ class_patch_areas' = EmptyDict
    /\ class_centroids' = EmptyDict
    /\ patches' = <<>>
    /\ patch_cells' = {}
    /\ enq' = ZeroCount
    /\ deq' = ZeroCount
    /\ layer_ops' = layer_ops \o BlockOfTempLayer(metric)
    /\ UNCHANGED <<block, metricIx, queue, class_value, patch_size, pixels, returned,
                   is_geographic, pixel_size_y>>
    /\ UNCHANGED <<workerVars, serviceVars>>

\* the next iteration of "for row ... for col ..."
NextRow == IF col + 1 = width THEN row + 1 ELSE row
NextCol == IF col + 1 = width THEN 0 ELSE col + 1

\* an iteration that ends in "continue": the cell is visited or background
ScanSkip ==
    /\ pc = "scan"
    /\ row < height
    /\ visited[<<row, col>>] \/ IsBackground(block[<<row, col>>])
    /\ row' = NextRow
    /\ col' = NextCol
    /\ UNCHANGED <<block, metricIx, pc, visited, queue, class_value, patch_size,
                   pixels, class_patch_counts, class_patch_areas, class_centroids,
                   returned, patches, patch_cells, enq, deq>>
    /\ UNCHANGED <<workerVars, layerVars, serviceVars>>

\* an iteration that calls bfs(row, col, value): the statements before the loop
ScanSeed ==
    /\ pc = "scan"
    /\ row < height
    /\ ~visited[<<row, col>>]
    /\ ~IsBackground(block[<<row, col>>])
    /\ pc' = "bfs"
    /\ class_value' = block[<<row, col>>]
    /\ queue' = <<<<row, col>>>>
    /\ visited' = MarkVisited(visited, <<row, col>>)
    /\ patch_size' = 0
    /\ pixels' = <<>>
    /\ patch_cells' = {}
    /\ enq' = [enq EXCEPT ![<<row, col>>] = @ + 1]
    /\ UNCHANGED <<block, metricIx, row, col, class_patch_counts, class_patch_areas,
                   class_centroids, returned, patches, deq>>
    /\ UNCHANGED <<workerVars, layerVars, serviceVars>>

Occurrences(s, x) == Cardinality({i \in 1..Len(s) : s[i] = x})

\* patch_size += 1 (MeanPatchArea.bfs and Helper.bfs)
CountPixel(n) == n + 1

\* one iteration of "while queue": popleft and the loop over directions
BfsStep ==
    /\ pc = "bfs"
    /\ queue # <<>>
    /\ LET cell == Head(queue)
           e == Expand(1, visited, Tail(queue), cell[1], cell[2], class_value)
           added == SubSeq(e.queue, Len(queue), Len(e.queue))
       IN /\ visited' = e.visited
          /\ queue' = e.queue
          /\ patch_size' = IF metric \in {"Mean Patch Area", "Median Patch Area"}
                           THEN CountPixel(patch_size) ELSE patch_size
          /\ pixels' = IF metric = "Nearest Neighbour Distance"
                       THEN Append(pixels, PixelCentre(cell[1], cell[2])) ELSE pixels
          /\ patch_cells' = patch_cells \cup {cell}
          /\ deq' = [deq EXCEPT ![cell] = @ + 1]
          /\ enq' = [x \in Cells |-> enq[x] + Occurrences(added, x)]
    /\ UNCHANGED <<block, metricIx, pc, row, col, class_value, class_patch_counts,
                   class_patch_areas, class_centroids, returned, patches>>
    /\ UNCHANGED <<workerVars, layerVars, serviceVars>>

\* variant: the pixel count is taken for the area
PatchAreaInPixels(patch_pixel_count) == patch_pixel_count

\* area = (patch_pixel_count * pixel_area) / 1e6
PatchArea(patch_pixel_count) == patch_pixel_count * pixel_area

\* variant: class_patch_counts[value] = 1, the earlier count is lost
CountPatchOverwrites(d, value) == DictSet(d, value, 1)

\* class_patch_counts[value] += 1, from 0 when the key is new
CountPatch(d, value) ==
    DictSet(d, value, (IF value \in DOMAIN d THEN d[value] ELSE 0) + 1)

\* d[value].append(x), from [] when the key is new
AppendTo(d, value, x) ==
    DictSet(d, value, Append(IF value \in DOMAIN d THEN d[value] ELSE <<>>, x))

\* bfs returns ("while queue" ends) and the scan records the patch
BfsReturn ==
    /\ pc = "bfs"
    /\ queue = <<>>
    /\ pc' = "scan"
    /\ class_patch_counts' = IF metric = "Number of Patches"
                             THEN CountPatch(class_patch_counts, class_value)
                             ELSE class_patch_counts
    /\ class_patch_areas' = IF metric \in {"Mean Patch Area", "Median Patch Area"}
                            THEN AppendTo(class_patch_areas, class_value,
                                          PatchArea(patch_size))
                            ELSE class_patch_areas
    /\ class_centroids' = IF metric = "Nearest Neighbour Distance"
                          THEN AppendTo(class_centroids, class_value, Centroid(pixels))
                          ELSE class_centroids
    /\ patches' = Append(patches, [cls |-> class_value, cells |-> patch_cells,
                                    size |-> patch_size])
    /\ row' = NextRow
    /\ col' = NextCol
    /\ UNCHANGED <<block, metricIx, visited, queue, class_value, patch_size, pixels,
                   returned, patch_cells, enq, deq>>
    /\ UNCHANGED <<workerVars, layerVars, serviceVars>>

\* the value calculateMetric returns once the scan loops are over
MetricResult ==
    CASE metric = "Number of Patches" -> class_patch_counts
      [] metric = "Mean Patch Area" ->
            [cls \in DOMAIN class_patch_areas |-> Mean(class_patch_areas[cls])]
      [] metric = "Median Patch Area" ->
            [cls \in DOMAIN class_patch_areas |->
                IF Len(class_patch_areas[cls]) > 0
                THEN Median(class_patch_areas[cls]) ELSE <<0, 1>>]
      [] OTHER ->
            [cls \in DOMAIN class_centroids |-> NearestOf(class_centroids[cls], 1)]

ReturnMetric ==
    /\ pc = "scan"
    /\ row = height
    /\ pc' = "idle"
    /\ returned' = DictSet(returned, metric, MetricResult)
    /\ metricIx' = metricIx + 1
    /\ UNCHANGED <<block, visited, row, col, queue, class_value, patch_size, pixels,
                   class_patch_counts, class_patch_areas, class_centroids, patches,
                   patch_cells, enq, deq>>
    /\ UNCHANGED <<workerVars, layerVars, serviceVars>>

ScanNext == CallMetric \/ ScanSkip \/ ScanSeed \/ BfsStep \/ BfsReturn \/ ReturnMetric

ScanSpec == ScanInit /\ [][ScanNext]_vars

FairScanSpec == ScanSpec /\ WF_vars(ScanNext)

ScanTypeOK ==
    /\ pc \in {"idle", "scan", "bfs"}
    /\ row \in 0..height
    /\ col \in 0..(width - 1)
    /\ \A i \in 1..Len(queue) : queue[i] \in Cells

(***************************************************************************)
(* Patches as the glossary defines them, independently of the scan: the    *)
(* maximal groups of same-valued cells connected through orthogonal or     *)
(* diagonal neighbours.                                                    *)
(***************************************************************************)
Adjacent8(a, b) == a # b /\ Abs(a[1] - b[1]) <= 1 /\ Abs(a[2] - b[2]) <= 1

CellsOf(c) == {cell \in Cells : block[cell] = c}

RECURSIVE Grow(_, _)
Grow(S, c) ==
    LET T == S \cup {b \in CellsOf(c) : \E a \in S : Adjacent8(a, b)}
    IN IF T = S THEN S ELSE Grow(T, c)

Components(c) == {Grow({cell}, c) : cell \in CellsOf(c)}

NonBackground == {cell \in Cells : block[cell] # Null /\ block[cell] # 0}

\* the row-major scan of the running metric has passed the last cell
ScanComplete == pc = "scan" /\ row = height

PatchIx == 1..Len(patches)

(***************************************************************************)
(* C1  Patch partition: after the full row-major scan the cell sets of the *)
(* discovered patches are pairwise disjoint and their union is exactly the *)
(* set of non-background cells (value neither null nor 0).                 *)
(***************************************************************************)
C1_PatchPartition ==
    ScanComplete =>
        /\ \A i, j \in PatchIx : i # j => patches[i].cells \cap patches[j].cells = {}
        /\ UNION {patches[i].cells : i \in PatchIx} = NonBackground

\* a finished scan that found several patches, one of them of several cells,
\* on a grid with both kinds of background cell
C1_Witness ==
    /\ ScanComplete
    /\ Len(patches) >= 2
    /\ \E i \in PatchIx : Cardinality(patches[i].cells) >= 2
    /\ \E cell \in Cells : block[cell] = Null
    /\ \E cell \in Cells : block[cell] = 0

(***************************************************************************)
(* C2  For every non-background class c, NumberOfPatches(grid)[c] is the   *)
(* number of maximal 8-connected components of the cells of value c (no    *)
(* key for a class without cells): cells touching only diagonally are one  *)
(* patch, cells not linked by a chain of adjacent c-cells are two.         *)
(***************************************************************************)
CountsAreComponents(counts) ==
    /\ DOMAIN counts \subseteq Classes
    /\ \A c \in Classes :
         IF c \in DOMAIN counts
         THEN counts[c] = Cardinality(Components(c))
         ELSE CellsOf(c) = {}

C2_NumberOfPatches ==
    /\ (ScanComplete /\ metric = "Number of Patches")
          => CountsAreComponents(class_patch_counts)
    /\ "Number of Patches" \in DOMAIN returned
          => CountsAreComponents(returned["Number of Patches"])

\* the returned counts of a grid where one class is two cells touching only at
\* a corner (one patch) and another class is two cells apart (two patches)
C2_Witness ==
    /\ "Number of Patches" \in DOMAIN returned
    /\ \E c, d \in Classes :
         /\ c \in DOMAIN returned["Number of Patches"]
         /\ d \in DOMAIN returned["Number of Patches"]
         /\ returned["Number of Patches"][c] = 1
         /\ \E a, b \in CellsOf(c) :
               /\ CellsOf(c) = {a, b}
               /\ Abs(a[1] - b[1]) = 1 /\ Abs(a[2] - b[2]) = 1
         /\ returned["Number of Patches"][d] = 2
         /\ \E a, b \in CellsOf(d) :
               /\ CellsOf(d) = {a, b}
               /\ ~Adjacent8(a, b) /\ a # b

(***************************************************************************)
(* C3  Count consistency: for every non-background class c, the pixel      *)
(* counts bfs returned for the patches of c during one full scan add up to *)
(* the number of cells of value c (and so do the recorded areas, per       *)
(* pixel_area).                                                            *)
(***************************************************************************)
RECURSIVE SizesOf(_, _)
SizesOf(c, i) ==
    IF i > Len(patches) THEN 0
    ELSE (IF patches[i].cls = c THEN patches[i].size ELSE 0) + SizesOf(c, i + 1)

C3_CountConsistency ==
    (ScanComplete /\ metric \in {"Mean Patch Area", "Median Patch Area"}) =>
        \A c \in Classes :
            /\ SizesOf(c, 1) = Cardinality(CellsOf(c))
            /\ IF c \in DOMAIN class_patch_areas
               THEN SumSeq(class_patch_areas[c]) = Cardinality(CellsOf(c)) * pixel_area
               ELSE CellsOf(c) = {}

\* a finished scan in which one class has two patches of different sizes next
\* to a patch of another class
C3_Witness ==
    /\ ScanComplete
    /\ metric = "Median Patch Area"
    /\ \E i, j, k \in PatchIx :
         /\ i # j
         /\ patches[i].cls = patches[j].cls
         /\ patches[i].size # patches[j].size
         /\ patches[k].cls # patches[i].cls
         /\ \E a \in patches[i].cells, b \in patches[k].cells : Adjacent8(a, b)

(***************************************************************************)
(* C4  Class homogeneity: every cell a bfs / bfs_collect call marks        *)
(* visited or enqueues has the value the call was seeded with; a cell      *)
(* whose value is null or 0 is never a seed, never visited and in no       *)
(* patch.                                                                  *)
(***************************************************************************)
InQueue(cell) == \E i \in 1..Len(queue) : queue[i] = cell

C4_ClassHomogeneity ==
    /\ pc = "bfs" =>
         /\ class_value # Null /\ class_value # 0
         /\ \A cell \in Cells :
              (InQueue(cell) \/ cell \in patch_cells) => block[cell] = class_value
    /\ \A i \in PatchIx :
         /\ patches[i].cls # Null /\ patches[i].cls # 0
         /\ \A cell \in patches[i].cells : block[cell] = patches[i].cls
    /\ \A cell \in Cells :
         visited[cell] =>
            \/ pc = "bfs" /\ (InQueue(cell) \/ cell \in patch_cells)
            \/ \E i \in PatchIx : cell \in patches[i].cells

\* a bfs_collect call that has emptied its queue after joining several cells,
\* with an unvisited cell of another class, a null cell and a 0 cell next to
\* the patch
C4_Witness ==
    /\ pc = "bfs"
    /\ metric = "Nearest Neighbour Distance"
    /\ queue = <<>>
    /\ Cardinality(patch_cells) >= 2
    /\ \E a \in patch_cells, b \in Cells :
         Adjacent8(a, b) /\ block[b] \in Classes /\ block[b] # class_value
         /\ ~visited[b]
    /\ \E a \in patch_cells, b \in Cells : Adjacent8(a, b) /\ block[b] = Null
    /\ \E a \in patch_cells, b \in Cells : Adjacent8(a, b) /\ block[b] = 0

(***************************************************************************)
(* C5  Visited-once and termination: during one full-grid scan a visited   *)
(* flag only ever changes from False to True; each non-background cell is  *)
(* enqueued and dequeued exactly once over all bfs calls of the scan and a *)
(* background cell never; every bfs call returns and the scans end.        *)
(***************************************************************************)
VisitedMonotonic ==
    pc # "idle" => \A cell \in Cells : visited[cell] => visited'[cell]

AtMostOnce ==
    \A cell \in Cells :
        /\ enq[cell] <= 1
        /\ deq[cell] <= enq[cell]
        /\ (block[cell] = Null \/ block[cell] = 0) => enq[cell] = 0

ExactlyOnce ==
    ScanComplete => \A cell \in NonBackground : enq[cell] = 1 /\ deq[cell] = 1

AllReturned == pc = "idle" /\ metricIx > Len(ScanMetrics)

C5_VisitedOnceTerminates ==
    /\ [][VisitedMonotonic]_vars
    /\ [](AtMostOnce /\ ExactlyOnce)
    /\ [](pc = "bfs" => <>(pc = "scan"))
    /\ <>AllReturned

\* the last scan is over, on a grid where a bfs call joined three cells
C5_Witness ==
    /\ AllReturned
    /\ \E i \in PatchIx : Cardinality(patches[i].cells) >= 3
    /\ \E cell \in Cells : block[cell] = 0

(***************************************************************************)
(* MetricCalculationWorker (Controllers/BackgroundTaskWorker.py).          *)
(*                                                                         *)
(* A row of data_to_write is the tuple                                     *)
(*   <<layer_name, metric_name, detail, value, unit, classId, className>>. *)
(* The value of a metric function is the record [kind, num, items]:        *)
(*   kind "scalar": the number num;                                        *)
(*   kind "dict": the dict of the pairs <<cls, number>> of items, in       *)
(*                insertion order;                                         *)
(*   kind "patch_density": PatchDensity's dict, num its "patch_density"    *)
(*                and items the triples <<cls, num_patches, patch_density>>*)
(*                of its "patch_stats".                                    *)
(***************************************************************************)
NoneId == Null
NoneName == "None"

\* the names of the registry's descriptors the batch is run with
WorkerMetrics ==
    {"Number of Patches", "Effective Mesh Size", "Patch Density",
     "Land Cover Percentage"}

Scalar(n) == [kind |-> "scalar", num |-> n, items |-> <<>>]
ClassDict(items) == [kind |-> "dict", num |-> 0, items |-> items]
DensityDict(n, stats) == [kind |-> "patch_density", num |-> n, items |-> stats]

Returns(value) == [raises |-> FALSE, message |-> "", value |-> value]
Raises(message) == [raises |-> TRUE, message |-> message, value |-> Scalar(0)]

\* what metric_func(layer) can do: raise, or return a value of its shape
MetricOutcomes(metric_name) ==
    CASE metric_name = "Number of Patches" ->
            { Raises("invalid block"),
              Returns(ClassDict(<< <<1, 2>>, <<2, 1>> >>)) }
      [] metric_name = "Effective Mesh Size" ->
            { Raises("division by zero"), Returns(Scalar(5)) }
      [] metric_name = "Land Cover Percentage" ->
            { Returns(ClassDict(<< <<1, 75>>, <<2, 25>> >>)) }
      [] OTHER ->
            { Raises("invalid block"),
              Returns(DensityDict(3, << <<1, 2, 2>>, <<2, 1, 1>> >>)) }

\* what land_cover_mapping_func(layer) can return: a dict of labels of the form
\* "<code> - <name>" (class 2 has no entry), or None
NoneMapping == [k \in {NoneId} |-> [code |-> "", name |-> NoneName]]
LabelMappings == { [k \in {1} |-> [code |-> "1", name |-> "Water"]], NoneMapping }

\* what raises outside the per-unit try block: layer.name(),
\* self.land_cover_mapping_func(layer)
LayerErrors == {"layer.name() failed", "land_cover_mapping_func failed"}

\* self.unit_mapping
unit_mapping == [m \in {"Effective Mesh Size"} |-> "km2"]

\* d.get(key, default)
Get(d, key, default) == IF key \in DOMAIN d THEN d[key] ELSE default

\* f"{candidate:.2f}" of a whole number
Format2f(n) == ToString(n) \o ".00"

\* _format_layer_metric_value(value)
FormatLayerMetricValue(value) ==
    CASE value.kind = "scalar" -> Format2f(value.num)
      [] value.kind = "patch_density" -> Format2f(value.num)
      [] value.kind = "dict" ->
            IF Len(value.items) > 0 THEN Format2f(value.items[1][2]) ELSE "{}"
      [] OTHER -> "str(value)"

\* original_label = land_cover_mapping.get(cls, f"Class {cls}")
OriginalLabel(mapping, cls) ==
    Get(mapping, cls, [code |-> "", name |-> "Class " \o ToString(cls)])

\* original_label.split(" - ", 1)[1].strip() if " - " is in the label,
\* else str(original_label)
ClassNameOf(label) == label.name

\* class_name.lower().startswith("class ")
FallbackLabels == {"Class " \o ToString(cls) : cls \in 0..(MaxClass + 1)}
\* variant: no class name is taken for a fallback label
StartsWithClassNever(class_name) == FALSE

StartsWithClass(class_name) == class_name \in FallbackLabels

Row(layer, metric_name, detail, value, unit, classId, className) ==
    <<layer, metric_name, detail, value, unit, classId, className>>

\* the rows one class contributes in a class-keyed branch: none when the class
\* name starts with "class "
ClassRows(layer, metric_name, mapping, item) ==
    LET cls == item[1]
        class_name == ClassNameOf(OriginalLabel(mapping, cls))
    IN IF StartsWithClass(class_name) THEN <<>>
       ELSE CASE metric_name = "Patch Density" ->
                   << Row(layer, metric_name, "Patch Count", item[2], "patches",
                          cls, class_name),
                      Row(layer, metric_name, "Patch Density", item[3],
                          "patches/km2", cls, class_name) >>
              [] metric_name = "Land Cover" ->
                   << Row(layer, metric_name, "Percentage", item[2], "%",
                          cls, class_name) >>
              [] metric_name \in {"Mean Patch Area", "Median Patch Area",
                                  "Smallest Patch Area", "Greatest Patch Area"} ->
                   << Row(layer, metric_name, metric_name, item[2],
                          Get(unit_mapping, metric_name, "km2"), cls, class_name) >>
              [] metric_name = "Nearest Neighbour Distance" ->
                   << Row(layer, metric_name, "Nearest Neighbour Distance", item[2],
                          Get(unit_mapping, "Nearest Neighbour Distance", "km"),
                          cls, class_name) >>
              [] metric_name = "Number of Patches" ->
                   << Row(layer, metric_name, "Patch Count", item[2], "patches",
                          cls, class_name) >>
              [] OTHER ->
                   << Row(layer, metric_name, metric_name, item[2],
                          Get(unit_mapping, metric_name, "Index"), cls, class_name) >>

RECURSIVE AllClassRows(_, _, _, _, _)
AllClassRows(layer, metric_name, mapping, items, i) ==
    IF i > Len(items) THEN <<>>
    ELSE ClassRows(layer, metric_name, mapping, items[i])
         \o AllClassRows(layer, metric_name, mapping, items, i + 1)

ClassBranches ==
    {"Patch Density", "Land Cover", "Mean Patch Area", "Median Patch Area",
     "Smallest Patch Area", "Greatest Patch Area", "Nearest Neighbour Distance",
     "Number of Patches", "Patch Cohesion Index", "Splitting Index"}

\* lines 96-272: the rows a returned value is flattened into, or the exception
\* raised on the way (land_cover_mapping.get on None, at the first class)
Normalize(layer, metric_name, value, mapping) ==
    CASE value.kind \in {"dict", "patch_density"} /\ metric_name \in ClassBranches ->
            IF mapping = NoneMapping /\ Len(value.items) > 0
            THEN [raised |-> TRUE, rows |-> <<>>,
                  message |-> "'NoneType' object has no attribute 'get'"]
            ELSE [raised |-> FALSE, message |-> "",
                  rows |-> AllClassRows(layer, metric_name, mapping, value.items, 1)]
      [] value.kind \in {"dict", "patch_density"} ->
            [raised |-> FALSE, message |-> "",
             rows |-> << Row(layer, metric_name, "Raw Dict Output", "str(value)",
                             "N/A", NoneId, NoneName) >>]
      [] value.kind = "scalar" ->
            [raised |-> FALSE, message |-> "",
             rows |-> << Row(layer, metric_name, "TOTAL Value", value.num,
                             IF metric_name \in {"NumberOfPatches", "Number of Patches"}
                             THEN "patches"
                             ELSE Get(unit_mapping, metric_name, "N/A"),
                             NoneId, NoneName) >>]
      [] OTHER ->
            [raised |-> FALSE, message |-> "",
             rows |-> << Row(layer, metric_name, "Raw Output", "str(value)", "N/A",
                             NoneId, NoneName) >>]

\* the row of the per-unit except clause
ErrorRow(layer, metric_name, message) ==
    Row(layer, metric_name, "ERROR", "Calculation Failed: " \o message, "N/A",
        NoneId, NoneName)

\* variant: the rows are inserted at the front of the list
AppendRowsPrepends(data, rows) == rows \o data

\* data_to_write.append(row) for each row, in order
AppendRows(data, rows) == data \o rows

Signal(name, percent, message, rows, summary) ==
    [signal |-> name, percent |-> percent, message |-> message, rows |-> rows,
     summary |-> summary]

Progress(percent, message) == Signal("progress", percent, message, <<>>, <<>>)
Error(message) == Signal("error", 0, message, <<>>, <<>>)
FinishedCalculation(rows, summary) ==
    Signal("finished_calculation", 0, "", rows, summary)

\* variant: the loops never read the flag
CancelNeverObserved == FALSE

\* if self._is_cancelled
CancelRequested == is_cancelled

\* int((current_task / total_tasks) * 100)
ProgressPercent(task, total) == (task * 100) \div total

metric_name == IF mi \in 1..Len(selected_metrics) THEN selected_metrics[mi] ELSE ""

\* the sequences over S of length at most n
RECURSIVE SeqsUpTo(_, _)
SeqsUpTo(S, n) ==
    IF n = 0 THEN {<<>>}
    ELSE LET shorter == SeqsUpTo(S, n - 1)
         IN shorter \cup {Append(q, x) : q \in shorter, x \in S}

\* the patch scan is not run by the worker model: no block is loaded
ScanIdle ==
    /\ block = <<>>
    /\ metricIx = 1
    /\ pc = "idle"
    /\ visited = <<>>
    /\ row = 0
    /\ col = 0
    /\ queue = <<>>
    /\ class_value = 0
    /\ patch_size = 0
    /\ pixels = <<>>
    /\ class_patch_counts = EmptyDict
    /\ class_patch_areas = EmptyDict
    /\ class_centroids = EmptyDict
    /\ returned = EmptyDict
    /\ patches = <<>>
    /\ patch_cells = {}
    /\ enq = <<>>
    /\ deq = <<>>
    /\ is_geographic = FALSE
    /\ layer_ops = <<>>
    /\ pixel_size_y = PixelHeight

\* __init__: the caller's selection
WorkerInit ==
    /\ ScanIdle
    /\ ExportIdle
    /\ ServerIdle
    /\ \E n \in 0..MaxLayers :
          selected_layers = [i \in 1..n |-> "Layer" \o ToString(i)]
    /\ selected_metrics \in
          {q \in SeqsUpTo(WorkerMetrics, MaxMetrics) :
              \A i, j \in 1..Len(q) : i # j => q[i] # q[j]}
    /\ land_cover_mapping_func \in LabelMappings
    /\ is_cancelled = FALSE
    /\ wpc = "init"
    /\ li = 1
    /\ mi = 1
    /\ layer_name = ""
    /\ land_cover_mapping = <<>>
    /\ layer_metrics = <<>>
    /\ data_to_write = <<>>
    /\ metric_data = <<>>
    /\ total_tasks = 0
    /\ current_task = 0
    /\ emitted = <<>>
    /\ units = <<>>
    /\ cancel_observed = FALSE
    /\ run_no = 1
    /\ previous = <<>>
    /\ memo = EmptyDict

\* cancel(), called from the caller's thread at any moment
Cancel ==
    /\ ~is_cancelled
    /\ is_cancelled' = TRUE
    /\ UNCHANGED <<selected_layers, selected_metrics, land_cover_mapping_func,
                   wpc, li, mi, layer_name,
                   land_cover_mapping, layer_metrics, data_to_write, metric_data,
                   total_tasks, current_task, emitted, units, cancel_observed>>
    /\ UNCHANGED <<scanVars, rerunVars, serviceVars>>

\* variant: the rows of the execution before are kept
RunLocalsKeepRows ==
    /\ data_to_write' = data_to_write
    /\ metric_data' = <<>>
    /\ total_tasks' = Len(selected_layers) * Len(selected_metrics)
    /\ current_task' = 0
    /\ li' = 1

\* lines 63-69: the locals of run() are created
RunLocals ==
    /\ data_to_write' = <<>>
    /\ metric_data' = <<>>
    /\ total_tasks' = Len(selected_layers) * Len(selected_metrics)
    /\ current_task' = 0
    /\ li' = 1

\* run(), lines 62-67
Start ==
    /\ wpc = "init"
    /\ wpc' = "layers"
    /\ RunLocals
    /\ UNCHANGED <<selected_layers, selected_metrics, land_cover_mapping_func,
                   is_cancelled, mi, layer_name,
                   land_cover_mapping, layer_metrics, emitted, units, cancel_observed>>
    /\ UNCHANGED <<scanVars, rerunVars, serviceVars>>

\* run() is executed again on the same worker, with the same layers, metrics
\* and mappings: what the execution before emitted is set aside
RunAgain ==
    /\ wpc = "done"
    /\ run_no < MaxRuns
    /\ run_no' = run_no + 1
    /\ previous' = emitted
    /\ emitted' = <<>>
    /\ units' = <<>>
    /\ cancel_observed' = FALSE
    /\ wpc' = "layers"
    /\ RunLocals
    /\ UNCHANGED <<selected_layers, selected_metrics, land_cover_mapping_func,
                   is_cancelled, mi, layer_name, land_cover_mapping, layer_metrics,
                   memo>>
    /\ UNCHANGED <<scanVars, serviceVars>>

\* layer.name() and self.land_cover_mapping_func(layer): functions of the layer,
\* which raise again if they raised before
LayerOutcomes(layer) ==
    IF <<layer, "layer">> \in DOMAIN memo THEN {memo[<<layer, "layer">>]}
    ELSE LayerErrors \cup {"ok"}

\* value = metric_func(layer): a function of the layer (here its position in
\* selected_layers), so a unit computed before does again what it did then
MetricFunc(layer, name) ==
    IF <<layer, name>> \in DOMAIN memo THEN {memo[<<layer, name>>]}
    ELSE MetricOutcomes(name)

\* variant: run returns without announcing the cancellation
ObserveCancelSilent ==
    /\ wpc' = "done"
    /\ cancel_observed' = TRUE
    /\ UNCHANGED <<selected_layers, selected_metrics, land_cover_mapping_func,
                   is_cancelled, li, mi, layer_name,
                   land_cover_mapping, layer_metrics, data_to_write, metric_data,
                   total_tasks, current_task, units, emitted>>
    /\ UNCHANGED <<scanVars, rerunVars, serviceVars>>

\* variant: "break" in place of "return": the loops are left and run goes on to
\* line 288
ObserveCancelBreak ==
    /\ emitted' = Append(emitted, Progress(0, "Cancelled"))
    /\ wpc' = "layers"
    /\ li' = Len(selected_layers) + 1
    /\ cancel_observed' = TRUE
    /\ UNCHANGED <<selected_layers, selected_metrics, land_cover_mapping_func,
                   is_cancelled, mi, layer_name,
                   land_cover_mapping, layer_metrics, data_to_write, metric_data,
                   total_tasks, current_task, units>>
    /\ UNCHANGED <<scanVars, rerunVars, serviceVars>>

\* lines 70-72 and 79-81: the flag is found set, "Cancelled" is reported and run
\* returns
ObserveCancel ==
    /\ emitted' = Append(emitted, Progress(0, "Cancelled"))
    /\ wpc' = "done"
    /\ cancel_observed' = TRUE
    /\ UNCHANGED <<selected_layers, selected_metrics, land_cover_mapping_func,
                   is_cancelled, li, mi, layer_name,
                   land_cover_mapping, layer_metrics, data_to_write, metric_data,
                   total_tasks, current_task, units>>
    /\ UNCHANGED <<scanVars, rerunVars, serviceVars>>

LayerCancelled ==
    /\ wpc = "layers"
    /\ li <= Len(selected_layers)
    /\ CancelRequested
    /\ ObserveCancel

\* lines 74-76
LayerStart ==
    /\ wpc = "layers"
    /\ li <= Len(selected_layers)
    /\ ~CancelRequested
    /\ "ok" \in LayerOutcomes(li)
    /\ memo' = DictSet(memo, <<li, "layer">>, "ok")
    /\ land_cover_mapping' = land_cover_mapping_func
    /\ layer_name' = selected_layers[li]
    /\ layer_metrics' = <<>>
    /\ mi' = 1
    /\ wpc' = "metrics"
    /\ UNCHANGED <<selected_layers, selected_metrics, land_cover_mapping_func,
                   is_cancelled, li, data_to_write,
                   metric_data, total_tasks, current_task, emitted, units,
                   cancel_observed>>
    /\ UNCHANGED <<scanVars, run_no, previous, serviceVars>>

\* variant: the handler of lines 291-292 sits inside the layer loop, which goes
\* on with the next layer
LayerFatalContinues ==
    /\ wpc = "layers"
    /\ li <= Len(selected_layers)
    /\ ~CancelRequested
    /\ \E message \in LayerOutcomes(li) \ {"ok"} :
          /\ emitted' = Append(emitted,
                               Error("Fatal error during calculation: " \o message))
          /\ memo' = DictSet(memo, <<li, "layer">>, message)
    /\ li' = li + 1
    /\ UNCHANGED <<selected_layers, selected_metrics, land_cover_mapping_func,
                   is_cancelled, wpc, mi, layer_name,
                   land_cover_mapping, layer_metrics, data_to_write, metric_data,
                   total_tasks, current_task, units, cancel_observed>>
    /\ UNCHANGED <<scanVars, run_no, previous, serviceVars>>

\* lines 74-75 raise; lines 291-292 handle it
LayerFatal ==
    /\ wpc = "layers"
    /\ li <= Len(selected_layers)
    /\ ~CancelRequested
    /\ \E message \in LayerOutcomes(li) \ {"ok"} :
          /\ emitted' = Append(emitted,
                               Error("Fatal error during calculation: " \o message))
          /\ memo' = DictSet(memo, <<li, "layer">>, message)
    /\ wpc' = "done"
    /\ UNCHANGED <<selected_layers, selected_metrics, land_cover_mapping_func,
                   is_cancelled, li, mi, layer_name,
                   land_cover_mapping, layer_metrics, data_to_write, metric_data,
                   total_tasks, current_task, units, cancel_observed>>
    /\ UNCHANGED <<scanVars, run_no, previous, serviceVars>>

UnitCancelled ==
    /\ wpc = "metrics"
    /\ mi <= Len(selected_metrics)
    /\ CancelRequested
    /\ ObserveCancel

\* lines 83-87
UnitStart ==
    /\ wpc = "metrics"
    /\ mi <= Len(selected_metrics)
    /\ ~CancelRequested
    /\ current_task' = current_task + 1
    /\ emitted' = Append(emitted,
                         Progress(ProgressPercent(current_task + 1, total_tasks),
                                  "Calculating " \o metric_name \o " for "
                                  \o layer_name \o "..."))
    /\ wpc' = "unit"
    /\ UNCHANGED <<selected_layers, selected_metrics, land_cover_mapping_func,
                   is_cancelled, li, mi, layer_name,
                   land_cover_mapping, layer_metrics, data_to_write, metric_data,
                   total_tasks, units, cancel_observed>>
    /\ UNCHANGED <<scanVars, rerunVars, serviceVars>>

Unit(outcome, n) ==
    [layer |-> li, metric |-> mi, outcome |-> outcome,
     mapping |-> land_cover_mapping, raised |-> (n.raised \/ outcome.raises),
     first |-> Len(data_to_write) + 1]

\* lines 89-272: metric_func(layer) returns and its value is flattened into rows
UnitReturns ==
    /\ wpc = "unit"
    /\ \E outcome \in MetricFunc(li, metric_name) :
          LET n == Normalize(layer_name, metric_name, outcome.value,
                             land_cover_mapping)
          IN /\ ~outcome.raises
             /\ ~n.raised
             /\ layer_metrics' = DictSet(layer_metrics, metric_name,
                                         FormatLayerMetricValue(outcome.value))
             /\ data_to_write' = AppendRows(data_to_write, n.rows)
             /\ units' = Append(units, Unit(outcome, n))
             /\ memo' = DictSet(memo, <<li, metric_name>>, outcome)
    /\ mi' = mi + 1
    /\ wpc' = "metrics"
    /\ UNCHANGED <<selected_layers, selected_metrics, land_cover_mapping_func,
                   is_cancelled, li, layer_name,
                   land_cover_mapping, metric_data, total_tasks, current_task,
                   emitted, cancel_observed>>
    /\ UNCHANGED <<scanVars, run_no, previous, serviceVars>>

\* variant: no per-unit try block: the exception reaches lines 291-292
UnitRaisesEscapes ==
    /\ wpc = "unit"
    /\ \E outcome \in MetricFunc(li, metric_name) :
          LET n == Normalize(layer_name, metric_name, outcome.value,
                             land_cover_mapping)
              message == IF outcome.raises THEN outcome.message ELSE n.message
          IN /\ outcome.raises \/ n.raised
             /\ layer_metrics' = IF outcome.raises THEN layer_metrics
                                 ELSE DictSet(layer_metrics, metric_name,
                                              FormatLayerMetricValue(outcome.value))
             /\ emitted' = Append(emitted,
                                  Error("Fatal error during calculation: "
                                        \o message))
             /\ units' = Append(units, Unit(outcome, n))
             /\ memo' = DictSet(memo, <<li, metric_name>>, outcome)
    /\ wpc' = "done"
    /\ UNCHANGED <<selected_layers, selected_metrics, land_cover_mapping_func,
                   is_cancelled, li, mi, layer_name, data_to_write,
                   land_cover_mapping, metric_data, total_tasks, current_task,
                   cancel_observed>>
    /\ UNCHANGED <<scanVars, run_no, previous, serviceVars>>

\* lines 89-284: metric_func(layer) or the flattening raises; the except clause
\* appends the ERROR row and emits error
UnitRaises ==
    /\ wpc = "unit"
    /\ \E outcome \in MetricFunc(li, metric_name) :
          LET n == Normalize(layer_name, metric_name, outcome.value,
                             land_cover_mapping)
              message == IF outcome.raises THEN outcome.message ELSE n.message
          IN /\ outcome.raises \/ n.raised
             /\ layer_metrics' = IF outcome.raises THEN layer_metrics
                                 ELSE DictSet(layer_metrics, metric_name,
                                              FormatLayerMetricValue(outcome.value))
             /\ data_to_write' =
                   AppendRows(data_to_write,
                              <<ErrorRow(layer_name, metric_name, message)>>)
             /\ emitted' = Append(emitted,
                                  Error("Error calculating " \o metric_name \o " for "
                                        \o layer_name \o ": " \o message))
             /\ units' = Append(units, Unit(outcome, n))
             /\ memo' = DictSet(memo, <<li, metric_name>>, outcome)
    /\ mi' = mi + 1
    /\ wpc' = "metrics"
    /\ UNCHANGED <<selected_layers, selected_metrics, land_cover_mapping_func,
                   is_cancelled, li, layer_name,
                   land_cover_mapping, metric_data, total_tasks, current_task,
                   cancel_observed>>
    /\ UNCHANGED <<scanVars, run_no, previous, serviceVars>>

\* line 286
LayerEnd ==
    /\ wpc = "metrics"
    /\ mi > Len(selected_metrics)
    /\ metric_data' = DictSet(metric_data, layer_name, layer_metrics)
    /\ li' = li + 1
    /\ wpc' = "layers"
    /\ UNCHANGED <<selected_layers, selected_metrics, land_cover_mapping_func,
                   is_cancelled, mi, layer_name,
                   land_cover_mapping, layer_metrics, data_to_write, total_tasks,
                   current_task, emitted, units, cancel_observed>>
    /\ UNCHANGED <<scanVars, rerunVars, serviceVars>>

\* variant: the flag is read once more after the loops
FinishUnlessCancelled ==
    /\ wpc = "layers"
    /\ li > Len(selected_layers)
    /\ emitted' = IF is_cancelled
                  THEN Append(emitted, Progress(0, "Cancelled"))
                  ELSE emitted \o << Progress(100, "Calculation complete!"),
                                     FinishedCalculation(data_to_write, metric_data) >>
    /\ cancel_observed' = is_cancelled
    /\ wpc' = "done"
    /\ UNCHANGED <<selected_layers, selected_metrics, land_cover_mapping_func,
                   is_cancelled, li, mi, layer_name,
                   land_cover_mapping, layer_metrics, data_to_write, metric_data,
                   total_tasks, current_task, units>>
    /\ UNCHANGED <<scanVars, rerunVars, serviceVars>>

\* lines 288-289
Finish ==
    /\ wpc = "layers"
    /\ li > Len(selected_layers)
    /\ emitted' = emitted \o << Progress(100, "Calculation complete!"),
                                FinishedCalculation(data_to_write, metric_data) >>
    /\ wpc' = "done"
    /\ UNCHANGED <<selected_layers, selected_metrics, land_cover_mapping_func,
                   is_cancelled, li, mi, layer_name,
                   land_cover_mapping, layer_metrics, data_to_write, metric_data,
                   total_tasks, current_task, units, cancel_observed>>
    /\ UNCHANGED <<scanVars, rerunVars, serviceVars>>

WorkerNext ==
    \/ Cancel \/ Start \/ LayerCancelled \/ LayerStart \/ LayerFatal
    \/ UnitCancelled \/ UnitStart \/ UnitReturns \/ UnitRaises \/ LayerEnd \/ Finish

WorkerSpec == WorkerInit /\ [][WorkerNext]_vars

\* the batch executed up to MaxRuns times on unchanged inputs
RerunNext == WorkerNext \/ RunAgain

RerunSpec == WorkerInit /\ [][RerunNext]_vars

(***************************************************************************)
(* Properties of MetricCalculationWorker.run                               *)
(***************************************************************************)
UnitIx == 1..Len(units)
EmittedIx == 1..Len(emitted)
RowIx == 1..Len(data_to_write)

FinishedAt(i) == emitted[i].signal = "finished_calculation"
\* the messages str(e) of the exceptions of the model
ExceptionMessages ==
    LayerErrors \cup {"invalid block", "division by zero",
                      "'NoneType' object has no attribute 'get'"}
FatalMessages ==
    {"Fatal error during calculation: " \o message : message \in ExceptionMessages}
FatalAt(i) ==
    /\ emitted[i].signal = "error"
    /\ emitted[i].message \in FatalMessages
CancelledAt(i) ==
    /\ emitted[i].signal = "progress"
    /\ emitted[i].message = "Cancelled"
UnitErrorAt(i) == emitted[i].signal = "error" /\ ~FatalAt(i)

FinishedCount == Cardinality({i \in EmittedIx : FinishedAt(i)})
FatalCount == Cardinality({i \in EmittedIx : FatalAt(i)})

\* the rows unit k appended: from its first row up to the next unit's first row
UnitRowsOf(k) ==
    SubSeq(data_to_write, units[k].first,
           IF k < Len(units) THEN units[k + 1].first - 1 ELSE Len(data_to_write))

\* str(e) of the exception unit k ended with
RaisedMessage(k) ==
    IF units[k].outcome.raises THEN units[k].outcome.message
    ELSE "'NoneType' object has no attribute 'get'"

UnitLayerName(k) == selected_layers[units[k].layer]
UnitMetricName(k) == selected_metrics[units[k].metric]

FailedUnitIsolated(k) ==
    LET notification ==
            "Error calculating " \o UnitMetricName(k) \o " for "
            \o UnitLayerName(k) \o ": " \o RaisedMessage(k)
    IN /\ UnitRowsOf(k) =
             << <<UnitLayerName(k), UnitMetricName(k), "ERROR",
                  "Calculation Failed: " \o RaisedMessage(k), "N/A",
                  NoneId, NoneName>> >>
       /\ Cardinality({i \in EmittedIx :
             /\ emitted[i].signal = "error"
             /\ emitted[i].message = notification}) = 1

\* the rows of a unit that did not raise are those of its own value alone
OtherUnitUnaffected(k) ==
    UnitRowsOf(k) = Normalize(UnitLayerName(k), UnitMetricName(k),
                              units[k].outcome.value, units[k].mapping).rows

RanToEnd == wpc = "done" /\ ~cancel_observed /\ FatalCount = 0

\* C6: every unit that raised contributed exactly the one ERROR row
\* [layer, metric, "ERROR", "Calculation Failed: <message>", "N/A", None, None]
\* and exactly one error emission; there are as many per-unit error emissions as
\* units that raised; every other unit's rows are those its own value is
\* flattened into; and a run that was neither cancelled nor hit a fatal error
\* has gone through every unit and ends with finished_calculation carrying
\* data_to_write
C6_FailureIsolation ==
    /\ \A k \in UnitIx :
          IF units[k].raised THEN FailedUnitIsolated(k) ELSE OtherUnitUnaffected(k)
    /\ Cardinality({i \in EmittedIx : UnitErrorAt(i)}) =
          Cardinality({k \in UnitIx : units[k].raised})
    /\ RanToEnd =>
          /\ Len(units) = Len(selected_layers) * Len(selected_metrics)
          /\ Len(emitted) > 0
          /\ emitted[Len(emitted)] = FinishedCalculation(data_to_write, metric_data)

\* three layers and one scalar metric, the second unit raised: three rows, one
\* of them ERROR, one error emission, and finished_calculation
C6_Witness ==
    /\ wpc = "done"
    /\ Len(selected_layers) = 3
    /\ selected_metrics = <<"Effective Mesh Size">>
    /\ Len(units) = 3
    /\ ~units[1].raised /\ units[2].raised /\ ~units[3].raised
    /\ Len(data_to_write) = 3
    /\ Cardinality({i \in RowIx : data_to_write[i][3] = "ERROR"}) = 1
    /\ Cardinality({i \in EmittedIx : emitted[i].signal = "error"}) = 1
    /\ FinishedCount = 1

\* a unit is entered only from a check that found the flag clear
CheckedBeforeUnit == (wpc # "unit" /\ wpc' = "unit") => ~is_cancelled

\* from the observing check on, no metric function runs and nothing is emitted
NothingAfterObserved ==
    cancel_observed' =>
        /\ units' = units
        /\ data_to_write' = data_to_write
        /\ wpc' = "done"
        /\ cancel_observed => emitted' = emitted

NoRowsDelivered == \A i \in EmittedIx : ~FinishedAt(i) /\ emitted[i].rows = <<>>

\* C7: the flag is checked before every unit (a unit is only entered with the
\* flag clear at its check); once a check has observed the flag, run has
\* returned, no further metric function is invoked, finished_calculation is not
\* emitted and no emission carries rows
C7_CooperativeCancellation ==
    /\ [][CheckedBeforeUnit]_vars
    /\ [][NothingAfterObserved]_vars
    /\ [](cancel_observed => wpc = "done" /\ NoRowsDelivered)

\* the flag was observed after units had appended rows, with units left to do
C7_Witness ==
    /\ cancel_observed
    /\ Len(data_to_write) >= 2
    /\ Len(units) >= 2
    /\ Len(units) < Len(selected_layers) * Len(selected_metrics)

Completed ==
    /\ Len(emitted) >= 2
    /\ emitted[Len(emitted) - 1] = Progress(100, "Calculation complete!")
    /\ FinishedAt(Len(emitted))
    /\ FinishedCount = 1

Failed == FatalCount = 1 /\ FinishedCount = 0

Cancelled == cancel_observed /\ FinishedCount = 0 /\ FatalCount = 0

ExactlyOneOf(a, b, c) ==
    \/ a /\ ~b /\ ~c
    \/ ~a /\ b /\ ~c
    \/ ~a /\ ~b /\ c

\* C8: a run that has returned is in exactly one of Completed, Failed and
\* Cancelled; finished_calculation is emitted at most once, and never after a
\* fatal error or an observed cancellation
C8_TerminalOutcomesExclusive ==
    /\ wpc = "done" => ExactlyOneOf(Completed, Failed, Cancelled)
    /\ FinishedCount <= 1
    /\ cancel_observed => FinishedCount = 0
    /\ \A i \in EmittedIx :
          (FatalAt(i) \/ CancelledAt(i)) =>
              \A j \in (i + 1)..Len(emitted) : ~FinishedAt(j)

\* cancel() came after the last check: the run is Completed all the same, with
\* an ERROR row among its rows
C8_Witness ==
    /\ wpc = "done"
    /\ Completed
    /\ is_cancelled
    /\ Len(units) >= 2
    /\ \E k \in UnitIx : units[k].raised

\* after a fatal error nothing more is processed or emitted
NothingAfterFatal ==
    FatalCount > 0 =>
        /\ units' = units
        /\ data_to_write' = data_to_write
        /\ emitted' = emitted
        /\ wpc' = "done"

\* C9: an exception outside the per-unit try block ends the batch: there is at
\* most one "Fatal error during calculation" emission, it is the last emission,
\* run has returned, finished_calculation is not emitted, and no layer or metric
\* is processed afterwards
C9_FatalAbortsBatch ==
    /\ [](FatalCount <= 1)
    /\ [](FatalCount = 1 =>
             /\ wpc = "done"
             /\ FatalAt(Len(emitted))
             /\ FinishedCount = 0)
    /\ [][NothingAfterFatal]_vars

\* the second layer raised after the first layer's units were done, with a
\* third layer never reached
C9_Witness ==
    /\ FatalCount = 1
    /\ li = 2
    /\ Len(selected_layers) = 3
    /\ Len(units) = Len(selected_metrics)
    /\ Len(units) = 2
    /\ Len(data_to_write) >= 2

\* the position of unit (layer, metric) in the nested order
NestedIx(layerIx, metricPos) == (layerIx - 1) * Len(selected_metrics) + metricPos

LayerPos(name) == CHOOSE i \in 1..Len(selected_layers) : selected_layers[i] = name
MetricPos(name) == CHOOSE i \in 1..Len(selected_metrics) : selected_metrics[i] = name

\* the unit a row belongs to, by the layer and metric names it carries
RowUnit(r) == NestedIx(LayerPos(r[1]), MetricPos(r[2]))

\* C10: the k-th metric call is that of the k-th unit of the nested order
\* (layers, then metrics, both in the caller's order), the call in progress
\* is that of the next unit; the units of the rows of data_to_write, read in
\* list order, never decrease in the nested order: of any two rows the one of
\* the earlier unit comes first, and the rows of one unit are contiguous
C10_Ordering ==
    /\ \A k \in UnitIx : NestedIx(units[k].layer, units[k].metric) = k
    /\ wpc = "unit" => NestedIx(li, mi) = Len(units) + 1
    /\ \A i \in 1..(Len(data_to_write) - 1) :
          RowUnit(data_to_write[i]) <= RowUnit(data_to_write[i + 1])

\* a run of three layers and two metrics, a unit of two rows followed by rows
\* of later units
C10_Witness ==
    /\ wpc = "done"
    /\ Len(units) = 6
    /\ \E i \in RowIx :
          /\ i + 2 <= Len(data_to_write)
          /\ RowUnit(data_to_write[i]) = RowUnit(data_to_write[i + 1])
          /\ RowUnit(data_to_write[i + 1]) < RowUnit(data_to_write[i + 2])
    /\ RowUnit(data_to_write[1]) = 1

\* the progress events that announce a unit: all but "Cancelled" and
\* "Calculation complete!"
UnitProgressAt(i) ==
    /\ emitted[i].signal = "progress"
    /\ emitted[i].message \notin {"Cancelled", "Calculation complete!"}

\* the number of units announced before emission i
AnnouncedBefore(i) == Cardinality({j \in 1..(i - 1) : UnitProgressAt(j)})

UnitsStarted == Len(units) + (IF wpc = "unit" THEN 1 ELSE 0)

\* C11: every unit started has been announced by one progress event, whose
\* percentage is int(completed_units / total_units x 100) with completed_units
\* the number of units finished before it (0 for the first unit), and lies in
\* 0..100
C11_ProgressReporting ==
    /\ Cardinality({i \in EmittedIx : UnitProgressAt(i)}) = UnitsStarted
    /\ \A i \in EmittedIx :
          UnitProgressAt(i) =>
              /\ emitted[i].percent =
                    (AnnouncedBefore(i) * 100) \div
                        (Len(selected_layers) * Len(selected_metrics))
              /\ emitted[i].percent \in 0..100

\* the emissions stay as they are from the step that observes the flag on
EmitsNothingOnceObserved == cancel_observed' => emitted' = emitted

AnnouncesCancellationOnly ==
    cancel_observed' =>
        IF cancel_observed THEN emitted' = emitted
        ELSE emitted' = Append(emitted, Progress(0, "Cancelled"))

Adjacent4(a, b) == Abs(a[1] - b[1]) + Abs(a[2] - b[2]) = 1

\* the cells of a mask reachable from S through orthogonal neighbours
RECURSIVE LabelGrow(_, _)
LabelGrow(S, mask) ==
    LET T == S \cup {b \in mask : \E a \in S : Adjacent4(a, b)}
    IN IF T = S THEN S ELSE LabelGrow(T, mask)

\* ndimage.label(binary_mask) with its default structure: the features are the
\* groups of cells of the mask connected through orthogonal neighbours
Label(mask) == {LabelGrow({cell}, mask) : cell \in mask}

\* the sum of the values of a function of finite domain
RECURSIVE SumFn(_)
SumFn(f) ==
    IF DOMAIN f = {} THEN 0
    ELSE LET x == CHOOSE x \in DOMAIN f : TRUE
         IN f[x] + SumFn([y \in (DOMAIN f) \ {x} |-> f[y]])

Square(x) == x * x

\* the greatest and the least member of a non-empty set of numbers
Max(S) == CHOOSE x \in S : \A y \in S : y <= x
Min(S) == CHOOSE x \in S : \A y \in S : x <= y

\* the values with data of the block
\* layer.rasterUnitsPerPixelX()
pixel_size_x == PixelWidth

ValuesWithData == {block[cell] : cell \in {x \in Cells : block[x] # Null}}

\* the number of cells holding val
CountOf(val) == Cardinality({cell \in Cells : block[cell] = val})

\* EffectiveMeshSize.calculateMetric: stats counts every value that is not None;
\* sum(a ** 2) / total_area raises ZeroDivisionError when no cell has data
EffectiveMeshSize ==
    LET areas == [val \in ValuesWithData |->
                     CountOf(val) * Abs(pixel_size_x * pixel_size_y)]
        total_area == SumFn(areas)
    IN IF total_area = 0 THEN Raises("division by zero")
       ELSE Returns(<<SumFn([val \in ValuesWithData |-> Square(areas[val])]),
                      total_area>>)

\* LandCover.calculateMetric: (count / total_pixels) * 100 for every value that
\* is not None
LandCover ==
    LET total_pixels == Cardinality({cell \in Cells : block[cell] # Null})
    IN Returns([cls \in ValuesWithData |-> <<CountOf(cls) * 100, total_pixels>>])

\* total_area_m2 = width * pixel_size_x * height * pixel_size_y
total_area_m2 == width * pixel_size_x * height * pixel_size_y

\* patch_size_pixels * pixel_size_x * pixel_size_y
PatchSizeArea(patch_size_pixels) == patch_size_pixels * pixel_size_x * pixel_size_y

\* PatchDensity.calculateMetric: raster_array holds int(val) + 1, and 0 for None
\* alone, so that every value with data, 0 included, is labelled;
\* patch_stats[val] = {"num_patches", "patch_areas", "class_area_km2",
\* "patch_density"} and the landscape totals (areas kept in m2)
PatchDensityOf(b) ==
    LET unique == {b[cell] : cell \in {x \in Cells : b[x] # Null}}
        features(val) == Label({cell \in Cells : b[cell] = val})
        num_features(val) == Cardinality(features(val))
        total_patches == SumFn([val \in unique |-> num_features(val)])
    IN Returns([patch_density |-> IF total_area_m2 # 0
                                  THEN <<total_patches, total_area_m2>> ELSE <<0, 1>>,
                total_patches |-> total_patches,
                total_area |-> total_area_m2,
                patch_stats |->
                   [val \in unique |->
                       [num_patches |-> num_features(val),
                        patch_areas |-> [f \in features(val) |->
                                            PatchSizeArea(Cardinality(f))],
                        class_area_km2 |->
                            PatchSizeArea(Cardinality({cell \in Cells : b[cell] = val})),
                        patch_density |-> IF total_area_m2 # 0
                                          THEN <<num_features(val), total_area_m2>>
                                          ELSE <<0, 1>>]]])

PatchDensity == PatchDensityOf(block)

\* the values of raster_array other than 0 in SplittingIndex and
\* SmallestPatchArea: None and 0 are stored as 0
ForegroundValues == {val \in ValuesWithData : val # 0}

\* patch_areas of one value: the areas of the features of its mask
FeatureArea(feature) == Cardinality(feature) * pixel_size_x * pixel_size_y

\* SplittingIndex.calculateMetric: SI = total_area ** 2 / sum(a ** 2)
SplittingIndex ==
    Returns([val \in ForegroundValues |->
                LET features == Label({cell \in Cells : block[cell] = val})
                IN << Square(SumFn([f \in features |-> FeatureArea(f)])),
                      SumFn([f \in features |-> Square(FeatureArea(f))]) >>])

\* SmallestPatchArea.calculateMetric: min(patch_areas)
SmallestPatchArea ==
    Returns([val \in ForegroundValues |->
                Min({FeatureArea(feature) :
                        feature \in Label({cell \in Cells : block[cell] = val})})])

\* gdal:polygonize with EIGHT_CONNECTEDNESS False: one polygon per group of
\* equal-valued cells with data connected through orthogonal neighbours
Polygonize ==
    UNION {{[VALUE |-> val, cells |-> feature] :
               feature \in Label({cell \in Cells : block[cell] = val})} :
           val \in ValuesWithData}

\* GreatestPatchArea.calculateMetric: the largest geom.area() over the polygons
\* whose VALUE is positive and not nodata, 0.0 when there is none
GreatestPatchArea ==
    LET areas == {Cardinality(feature.cells) * Abs(pixel_area) :
                     feature \in {f \in Polygonize : f.VALUE > 0}}
    IN Returns(IF areas = {} THEN 0 ELSE Max(areas))

\* FractalDimensionIndex.calculateMetric, lines 24-48: stats[val] = {"area",
\* "perimeter"}; every side of a cell whose neighbour is outside the grid or
\* holds another value adds pixel_size_x
FdiDirections == << <<0 - 1, 0>>, <<1, 0>>, <<0, 0 - 1>>, <<0, 1>> >>

FdiSideCounts(cell, i) ==
    LET r == cell[1] + FdiDirections[i][1]
        c == cell[2] + FdiDirections[i][2]
    IN ~InGrid(r, c) \/ block[<<r, c>>] # block[cell]

FdiSideLength(i) == pixel_size_x

FdiCellPerimeter(cell) ==
    SumFn([i \in 1..Len(FdiDirections) |->
              IF FdiSideCounts(cell, i) THEN FdiSideLength(i) ELSE 0])

FractalDimensionStats ==
    Returns([val \in ValuesWithData |->
                [area |-> CountOf(val),
                 perimeter |-> SumFn([cell \in {x \in Cells : block[x] = val} |->
                                         FdiCellPerimeter(cell)])]])

\* the groups of cells of mask joined through the eight directions: what
\* bfs_collect gathers from each seed, and the polygons of gdal:polygonize
\* with 'EIGHT_CONNECTEDNESS': True
RECURSIVE Reach8(_, _)
Reach8(S, mask) ==
    LET T == S \cup {b \in mask : \E a \in S :
                        \E i \in 1..Len(directions) :
                           b = <<a[1] + directions[i][1], a[2] + directions[i][2]>>}
    IN IF T = S THEN S ELSE Reach8(T, mask)

Label8(mask) == {Reach8({cell}, mask) : cell \in mask}

\* Euclidean.calculateMetric: the centroid bfs_collect returns for every patch
\* of a value that is neither None nor 0, in the order the row-major scan
\* meets the patches
RowMajor(cell) == cell[1] * width + cell[2]

FirstCell(P) == CHOOSE x \in P : \A y \in P : RowMajor(x) <= RowMajor(y)

CentroidOf(P) ==
    << SumFn([cell \in P |-> PixelCentre(cell[1], cell[2])[1]]),
       SumFn([cell \in P |-> PixelCentre(cell[1], cell[2])[2]]),
       Cardinality(P) >>

patch_centroids ==
    LET found == UNION {Label8({cell \in Cells : block[cell] = val}) :
                           val \in ValuesWithData \ {0}}
        rank(P) == Cardinality({Q \in found :
                                   RowMajor(FirstCell(Q)) <= RowMajor(FirstCell(P))})
    IN [i \in 1..Cardinality(found) |->
           CentroidOf(CHOOSE P \in found : rank(P) = i)]

\* 0.0 with fewer than two patches, else the mean over the pairs i < j of the
\* distance between centroids i and j; kept as the squared distance of every
\* pair (the square root and the mean are not modelled)
Euclidean ==
    LET n == Len(patch_centroids)
    IN Returns(IF n < 2 THEN <<>>
               ELSE [pr \in {q \in (1..n) \X (1..n) : q[1] < q[2]} |->
                        DistSq(patch_centroids[pr[1]], patch_centroids[pr[2]])])

\* PatchCohesionIndex.calculateMetric: gdal:polygonize with
\* 'EIGHT_CONNECTEDNESS': True, then class_patches[cls] = the (geom.area(),
\* geom.length()) of every polygon of the class; kept as these pairs (the
\* cohesion formula over square roots is not modelled)
PolygonPerimeter(P) ==
    SumFn([cell \in P |->
              (IF <<cell[1] - 1, cell[2]>> \in P THEN 0 ELSE Abs(pixel_width))
            + (IF <<cell[1] + 1, cell[2]>> \in P THEN 0 ELSE Abs(pixel_width))
            + (IF <<cell[1], cell[2] - 1>> \in P THEN 0 ELSE Abs(pixel_height))
            + (IF <<cell[1], cell[2] + 1>> \in P THEN 0 ELSE Abs(pixel_height))])

PatchCohesionIndex ==
    Returns([cls \in ValuesWithData |->
                [P \in Label8({cell \in Cells : block[cell] = cls}) |->
                    <<Cardinality(P) * Abs(pixel_area), PolygonPerimeter(P)>>]])

\* the metrics computed in one step, called after the scans on the same block
DirectMetrics ==
    << "Effective Mesh Size", "Land Cover Percentage", "Patch Density",
       "Splitting Index", "Smallest Patch Area", "Greatest Patch Area",
       "Fractal Dimension Index", "Euclidean Distance", "Patch Cohesion Index" >>

\* what each direct metric does with the layer before its arithmetic
DirectLayerOps(name) ==
    CASE name = "Euclidean Distance" -> BlockOfTempLayer(name)
      [] name = "Patch Cohesion Index" ->
            Reproject(name) \o <<LayerOp(name, "gdal:polygonize", temp_layer)>>
      [] name = "Greatest Patch Area" -> <<LayerOp(name, "gdal:polygonize", "layer")>>
      [] OTHER -> BlockOfLayer(name)

\* calculateMetric of the k-th direct metric runs and its outcome is kept
DirectCall(k, outcome) ==
    /\ pc = "idle"
    /\ metricIx = Len(ScanMetrics) + k
    /\ returned' = DictSet(returned, DirectMetrics[k], outcome)
    /\ metricIx' = metricIx + 1
    /\ layer_ops' = layer_ops \o DirectLayerOps(DirectMetrics[k])
    /\ UNCHANGED <<block, pc, visited, row, col, queue, class_value, patch_size,
                   pixels, class_patch_counts, class_patch_areas, class_centroids,
                   patches, patch_cells, enq, deq, is_geographic, pixel_size_y>>
    /\ UNCHANGED <<workerVars, serviceVars>>

CalculateEffectiveMeshSize == DirectCall(1, EffectiveMeshSize)
CalculateLandCover == DirectCall(2, LandCover)
CalculatePatchDensity == DirectCall(3, PatchDensity)
CalculateSplittingIndex == DirectCall(4, SplittingIndex)
CalculateSmallestPatchArea == DirectCall(5, SmallestPatchArea)
CalculateGreatestPatchArea == DirectCall(6, GreatestPatchArea)
CalculateFractalDimensionIndex == DirectCall(7, FractalDimensionStats)
CalculateEuclidean == DirectCall(8, Euclidean)
CalculatePatchCohesionIndex == DirectCall(9, PatchCohesionIndex)

MetricNext ==
    \/ ScanNext
    \/ CalculateEffectiveMeshSize \/ CalculateLandCover \/ CalculatePatchDensity
    \/ CalculateSplittingIndex \/ CalculateSmallestPatchArea
    \/ CalculateGreatestPatchArea \/ CalculateFractalDimensionIndex
    \/ CalculateEuclidean \/ CalculatePatchCohesionIndex

\* every metric is computed once on one block: the scans, then the direct ones
MetricSpec == ScanInit /\ [][MetricNext]_vars

\* the same calls on a layer in any CRS
LayerSpec == LayerInit /\ [][MetricNext]_vars

\* the same calls on a layer whose cell height has either sign
CellSizeSpec == CellSizeInit /\ [][MetricNext]_vars

AllCalculated == pc = "idle" /\ metricIx > Len(ScanMetrics) + Len(DirectMetrics)

\* every cell of the block is 0 or without data
AllBackground == \A cell \in Cells : IsBackground(block[cell])

ReturnedZero(name) == ~returned[name].raises /\ returned[name].value = <<0, 1>>
ReturnedEmpty(name) == ~returned[name].raises /\ DOMAIN returned[name].value = {}

\* C13: on a block whose cells are all 0 or without data, every class-keyed
\* metric returns an empty mapping (the patch_stats of Patch Density included)
\* and Effective Mesh Size returns 0 without raising
C13_DegenerateInput ==
    (AllCalculated /\ AllBackground) =>
        /\ \A i \in 1..Len(ScanMetrics) : DOMAIN returned[ScanMetrics[i]] = {}
        /\ ReturnedEmpty("Land Cover Percentage")
        /\ ReturnedEmpty("Splitting Index")
        /\ ReturnedEmpty("Smallest Patch Area")
        /\ ~returned["Patch Density"].raises
        /\ DOMAIN returned["Patch Density"].value.patch_stats = {}
        /\ ~returned["Effective Mesh Size"].raises
        /\ returned["Effective Mesh Size"].value[1] = 0

\* C14: for every class c of the result of Splitting Index, the index is at
\* least 1, and it is 1 exactly when c has one patch, a patch being a maximal
\* group of cells of value c connected through orthogonal or diagonal neighbours
C14_SplittingIndexBound ==
    AllCalculated =>
        LET result == returned["Splitting Index"].value
        IN \A c \in DOMAIN result :
              /\ result[c][1] >= result[c][2]
              /\ result[c][1] = result[c][2] <=> Cardinality(Components(c)) = 1

\* C15: for every class c with cells, patch_stats[c]["num_patches"] of Patch
\* Density is the number of patches Number of Patches returns for c on the same
\* block, patch_stats[c]["patch_density"] is that count over the landscape
\* area, and patch_stats has no entry for the background value 0
C15_PatchDensityCountsBfsPatches ==
    AllCalculated =>
        LET patch_stats == returned["Patch Density"].value.patch_stats
            counts == returned["Number of Patches"]
        IN /\ 0 \notin DOMAIN patch_stats
           /\ \A c \in Classes :
                 CellsOf(c) # {} =>
                    /\ c \in DOMAIN patch_stats
                    /\ c \in DOMAIN counts
                    /\ patch_stats[c].num_patches = counts[c]
                    /\ patch_stats[c].patch_density =
                          <<counts[c], width * pixel_width * height * pixel_height>>

\* the patches of class c of a block b, as the glossary defines them
RECURSIVE GrowIn(_, _, _)
GrowIn(S, b, c) ==
    LET T == S \cup {y \in Cells : b[y] = c /\ \E a \in S : Adjacent8(a, y)}
    IN IF T = S THEN S ELSE GrowIn(T, b, c)

ComponentsIn(b, c) == {GrowIn({cell}, b, c) : cell \in {x \in Cells : b[x] = c}}

\* the blocks that differ from the block only in that its patch P of class c
\* is two disjoint patches of as many cells in all: the cells P gives up
\* become 0, the cells it gains were 0
SplitsOf(c, P) ==
    {b \in {[cell \in Cells |->
                IF cell \in Q THEN c ELSE IF cell \in P THEN 0 ELSE block[cell]] :
            Q \in {R \in SUBSET Cells :
                      /\ Cardinality(R) = Cardinality(P)
                      /\ \A cell \in R \ P : block[cell] = 0}} :
        /\ Cardinality(ComponentsIn(b, c)) = Cardinality(Components(c)) + 1
        /\ (Components(c) \ {P}) \subseteq ComponentsIn(b, c)}

\* C16: when a patch of class c is split into two disjoint patches, the number
\* of cells of c and the landscape being the same, patch_density of c is
\* strictly greater on the second block than on the first
C16_DensityMonotonicity ==
    AllCalculated =>
        \A c \in Classes : \A P \in Components(c) : \A b \in SplitsOf(c, P) :
            FracLess(returned["Patch Density"].value.patch_stats[c].patch_density,
                     PatchDensityOf(b).value.patch_stats[c].patch_density)

\* C17: when the scan of Mean Patch Area or of Median Patch Area is over, the
\* list of patch areas it collected for a class has as many entries as Number
\* of Patches returned for that class on the same block, and the classes are
\* the same; the three returned dicts have the same keys
C17_AreaCountDuality ==
    /\ (ScanComplete /\ metric \in {"Mean Patch Area", "Median Patch Area"}) =>
          /\ DOMAIN class_patch_areas = DOMAIN returned["Number of Patches"]
          /\ \A c \in DOMAIN class_patch_areas :
                Len(class_patch_areas[c]) = returned["Number of Patches"][c]
    /\ AllReturned =>
          /\ DOMAIN returned["Mean Patch Area"] = DOMAIN returned["Number of Patches"]
          /\ DOMAIN returned["Median Patch Area"] = DOMAIN returned["Number of Patches"]

\* the scan of Median Patch Area is over on a block where one class has two
\* patches and the other has one
C17_Witness ==
    /\ ScanComplete
    /\ metric = "Median Patch Area"
    /\ DOMAIN class_patch_areas = {1, 2}
    /\ Len(class_patch_areas[1]) = 2
    /\ Len(class_patch_areas[2]) = 1

\* the areas of the patches of positive class that the scan finds on the block:
\* maximal groups connected through orthogonal or diagonal neighbours
BfsPatchAreas ==
    {PatchArea(Cardinality(P)) : P \in UNION {Components(c) : c \in Classes}}

\* C18: for every block, Greatest Patch Area is the largest area among the
\* maximal 8-connected patches of positive, non-nodata class that the scan
\* finds (both sides in the same unit), 0 when there is none
C18_GreatestPatchAreaAgreesWithBfs ==
    AllCalculated =>
        /\ ~returned["Greatest Patch Area"].raises
        /\ returned["Greatest Patch Area"].value =
              IF BfsPatchAreas = {} THEN 0 ELSE Max(BfsPatchAreas)

\* the ground length of side i of a cell, i indexing FdiDirections: the cell
\* width for the north and south sides, the cell height for the east and west
GroundLength(i) == IF i \in {1, 2} THEN Abs(pixel_width) ELSE Abs(pixel_height)

EdgeLengthSum(val) ==
    SumFn([cell \in {x \in Cells : block[x] = val} |->
              SumFn([i \in 1..Len(FdiDirections) |->
                        IF FdiSideCounts(cell, i) THEN GroundLength(i) ELSE 0])])

\* C20: the perimeter Fractal Dimension Index accumulates for a class is the
\* sum, over the cells of the class and their four orthogonal sides whose
\* neighbour is outside the grid or holds another value, of the ground length
\* of the side: cell width for north and south, cell height for east and west
C20_PerimeterRule ==
    AllCalculated =>
        /\ ~returned["Fractal Dimension Index"].raises
        /\ \A val \in DOMAIN returned["Fractal Dimension Index"].value :
              returned["Fractal Dimension Index"].value[val].perimeter =
                  EdgeLengthSum(val)

\* the metrics that compute real-world areas or distances
MetricsInGroundUnits ==
    {"Mean Patch Area", "Median Patch Area", "Smallest Patch Area",
     "Patch Density", "Splitting Index", "Fractal Dimension Index",
     "Nearest Neighbour Distance", "Euclidean Distance", "Patch Cohesion Index"}

\* the positions in layer_ops of the steps of the call of one metric
OpsOf(name) == {i \in 1..Len(layer_ops) : layer_ops[i].metric = name}

ReprojectionsOf(name) ==
    {i \in OpsOf(name) : layer_ops[i].op = "gdal:warpreproject"}

\* the steps that fetch the cells or polygons the arithmetic runs on
ReadsOf(name) == {i \in OpsOf(name) : layer_ops[i].op # "gdal:warpreproject"}

\* C19: for every metric that computes real-world areas or distances, a call
\* on a layer whose CRS is geographic reprojects the layer exactly once and
\* reads the data it computes on only after the reprojection and from the
\* reprojected layer; a call on a layer whose CRS is not geographic does not
\* reproject
C19_ReprojectionRule ==
    AllCalculated =>
        \A name \in MetricsInGroundUnits :
            /\ ReadsOf(name) # {}
            /\ IF is_geographic
               THEN /\ Cardinality(ReprojectionsOf(name)) = 1
                    /\ \A i \in ReadsOf(name) :
                          /\ layer_ops[i].input = "reprojected"
                          /\ \A j \in ReprojectionsOf(name) : j < i
               ELSE ReprojectionsOf(name) = {}

\* |cellSizeX x cellSizeY|
AbsCellArea == Abs(pixel_size_x * pixel_size_y)

FracNonNegative(f) == f[1] * f[2] >= 0

\* C21: every area an area-based metric computes is the cell count times the
\* absolute cell area, hence not negative for either sign of the cell height:
\* the total_area, class_area_km2, patch_areas and patch_density of Patch
\* Density, the values of Smallest Patch Area, the areas of Effective Mesh Size
C21_AbsoluteCellArea ==
    AllCalculated =>
        LET pd == returned["Patch Density"].value
            spa == returned["Smallest Patch Area"].value
            ems == returned["Effective Mesh Size"]
        IN /\ pd.total_area = Cardinality(Cells) * AbsCellArea
           /\ FracNonNegative(pd.patch_density)
           /\ \A val \in DOMAIN pd.patch_stats :
                 /\ pd.patch_stats[val].class_area_km2 = CountOf(val) * AbsCellArea
                 /\ FracNonNegative(pd.patch_stats[val].patch_density)
                 /\ \A f \in DOMAIN pd.patch_stats[val].patch_areas :
                       pd.patch_stats[val].patch_areas[f] = Cardinality(f) * AbsCellArea
           /\ \A val \in DOMAIN spa : spa[val] >= 0
           /\ ~ems.raises => ems.value[2] = Cardinality({cell \in Cells : block[cell] # Null}) * AbsCellArea

\* the units whose value is class-keyed and was flattened without an exception
ClassKeyedUnits ==
    {k \in UnitIx :
        /\ ~units[k].raised
        /\ units[k].outcome.value.kind \in {"dict", "patch_density"}
        /\ UnitMetricName(k) \in ClassBranches}

ClassKeysOf(k) ==
    {units[k].outcome.value.items[j][1] :
        j \in 1..Len(units[k].outcome.value.items)}

RowsPerClass(k) == IF UnitMetricName(k) = "Patch Density" THEN 2 ELSE 1

\* the rows of unit k whose classId is cls
RowsOfClass(k, cls) ==
    {i \in 1..Len(UnitRowsOf(k)) : UnitRowsOf(k)[i][6] = cls}

\* the label "<code> - <name>" of a key of the mapping gives <name>; a key
\* without an entry gives "Class <value>"
ResolvedName(mapping, cls) ==
    IF cls \in DOMAIN mapping THEN mapping[cls].name
    ELSE "Class " \o ToString(cls)

NamedKeysOf(k) ==
    {cls \in ClassKeysOf(k) :
        ResolvedName(units[k].mapping, cls) \notin FallbackLabels}

LandCoverUnits ==
    {k \in UnitIx :
        /\ UnitMetricName(k) = "Land Cover Percentage"
        /\ ~units[k].outcome.raises}

\* C23: the class -> percent mapping of Land Cover, selected under LandCover.name,
\* is flattened into per-class rows with detail "Percentage", unit "%" and
\* classId and className set (one for every labelled class), never into a
\* "Raw Dict Output" row; and the name of every registry metric that returned a
\* dict is one of the class-specific branches
C23_LandCoverNormalization ==
    /\ \A k \in LandCoverUnits :
          /\ ~units[k].raised
          /\ \A i \in 1..Len(UnitRowsOf(k)) :
                /\ UnitRowsOf(k)[i][3] = "Percentage"
                /\ UnitRowsOf(k)[i][5] = "%"
                /\ UnitRowsOf(k)[i][6] \in ClassKeysOf(k)
                /\ UnitRowsOf(k)[i][7] # NoneName
          /\ \A cls \in ClassKeysOf(k) \cap DOMAIN units[k].mapping :
                Cardinality(RowsOfClass(k, cls)) = 1
    /\ \A k \in UnitIx :
          (~units[k].outcome.raises
           /\ units[k].outcome.value.kind \in {"dict", "patch_density"})
             => UnitMetricName(k) \in ClassBranches

\* the position of patch P among the patches of comps in the order the
\* row-major scan meets them
ScanRank(P, comps) ==
    Cardinality({Q \in comps : RowMajor(FirstCell(Q)) <= RowMajor(FirstCell(P))})

\* d is the squared distance from the centroid of P to the nearest centroid of
\* another patch of comps
NearestAmong(d, P, comps) ==
    /\ \E Q \in comps \ {P} : d = DistSq(CentroidOf(P), CentroidOf(Q))
    /\ \A Q \in comps \ {P} : ~FracLess(DistSq(CentroidOf(P), CentroidOf(Q)), d)

\* C24: for every class c with cells, the result of Nearest Neighbour Distance
\* holds for c the distances, one per patch of c, from the patch's centroid to
\* the nearest centroid of another patch of c (its mean is the value reported):
\* no centroid of another class and not the patch itself; for a class with one
\* patch the list is empty and 0.0 is reported; a class without cells has no key
C24_SameClassNearestNeighbour ==
    "Nearest Neighbour Distance" \in DOMAIN returned =>
        LET nnd == returned["Nearest Neighbour Distance"]
        IN \A c \in Classes :
              IF CellsOf(c) = {} THEN c \notin DOMAIN nnd
              ELSE /\ c \in DOMAIN nnd
                   /\ IF Cardinality(Components(c)) = 1 THEN nnd[c] = <<>>
                      ELSE /\ Len(nnd[c]) = Cardinality(Components(c))
                           /\ \A P \in Components(c) :
                                 NearestAmong(nnd[c][ScanRank(P, Components(c))],
                                              P, Components(c))

\* class 1 has two patches with the one patch of class 2 between them
C24_Witness ==
    /\ "Nearest Neighbour Distance" \in DOMAIN returned
    /\ block[<<0, 0>>] = 1 /\ block[<<0, 1>>] = 2 /\ block[<<0, 2>>] = 1
    /\ block[<<1, 0>>] = 0 /\ block[<<1, 1>>] = 2 /\ block[<<1, 2>>] = 0
    /\ Len(returned["Nearest Neighbour Distance"][1]) = 2
    /\ returned["Nearest Neighbour Distance"][2] = <<>>

FracEqual(a, b) == a[1] * b[2] = b[1] * a[2]

\* C25: for every class c with cells, Mean Patch Area returns for c the number
\* of cells of c times the cell area, divided by the number of 8-connected
\* patches of c (the same factor 1e6 on both sides); a class without cells has
\* no key
C25_MeanPatchArea ==
    "Mean Patch Area" \in DOMAIN returned =>
        LET mpa == returned["Mean Patch Area"]
        IN \A c \in Classes :
              IF CellsOf(c) = {} THEN c \notin DOMAIN mpa
              ELSE /\ c \in DOMAIN mpa
                   /\ mpa[c][2] > 0
                   /\ FracEqual(mpa[c], <<Cardinality(CellsOf(c)) * pixel_width * pixel_height,
                                          Cardinality(Components(c))>>)

\* class 1 is one patch of four cells, class 2 two patches of one cell
C25_Witness ==
    /\ "Mean Patch Area" \in DOMAIN returned
    /\ Cardinality(CellsOf(1)) = 4
    /\ Cardinality(Components(1)) = 1
    /\ FracEqual(returned["Mean Patch Area"][1], <<4 * PixelWidth * PixelHeight, 1>>)
    /\ Cardinality(CellsOf(2)) = 2
    /\ Cardinality(Components(2)) = 2

\* the row lists passed to finished_calculation among the signals e, in order
RECURSIVE FinishedRows(_)
FinishedRows(e) ==
    IF e = <<>> THEN <<>>
    ELSE (IF Head(e).signal = "finished_calculation" THEN <<Head(e).rows>> ELSE <<>>)
         \o FinishedRows(Tail(e))

\* the second execution is over and cancel() was never called
BothRunsOver == run_no = 2 /\ wpc = "done" /\ ~is_cancelled

TotalUnits == Len(selected_layers) * Len(selected_metrics)

\* the boundary check of the last unit has found the flag clear
LastCheckPassed == TotalUnits > 0 /\ current_task = TotalUnits

\* the flag is set and the boundary check of some unit is still to come
CancelledBeforeCheck == is_cancelled /\ current_task < TotalUnits

\* nothing reads the flag after the last boundary check
NoCheckAfterLast == LastCheckPassed => ~cancel_observed'

\* no boundary check is passed once the flag is set
NoUnitAfterCancel ==
    CancelledBeforeCheck => (current_task' = current_task /\ wpc' # "unit")

\* C27: the flag is read at unit boundaries only.  Once the boundary check of
\* the last unit has passed, cancel() changes nothing: run ends with progress
\* 100 "Calculation complete!" and finished_calculation carrying all rows.  If
\* the flag is set before the boundary check of some unit, that unit's metric
\* function is not invoked and finished_calculation is not emitted.
C27_CancellationAtBoundaries ==
    /\ [][NoCheckAfterLast]_vars
    /\ []((LastCheckPassed /\ wpc = "done")
            => (Completed /\ emitted[Len(emitted)].rows = data_to_write))
    /\ [][NoUnitAfterCancel]_vars
    /\ [](CancelledBeforeCheck => (FinishedCount = 0 /\ Len(units) <= current_task))

\* cancel() came after the last boundary check and was lost: the run completed
\* with the rows of its four units
C27_Witness ==
    /\ wpc = "done"
    /\ is_cancelled
    /\ ~cancel_observed
    /\ Len(units) = 4
    /\ Completed
    /\ Len(emitted[Len(emitted)].rows) >= 4

\* cancel() came before the boundary check of the third of four units: two
\* units ran, the run returned without finished_calculation
C27_WitnessObserved ==
    /\ wpc = "done"
    /\ cancel_observed
    /\ TotalUnits = 4
    /\ Len(units) = 2
    /\ FinishedCount = 0

\* __init__ with a selection whose layers may share a name: the combobox holds
\* the layer objects of the project, which may hold several layers of one name
SharedNameInit ==
    /\ ScanIdle
    /\ ExportIdle
    /\ ServerIdle
    /\ \E n \in 0..MaxLayers :
          /\ selected_layers \in
                [1..n -> {"Layer" \o ToString(i) : i \in 1..MaxLayers}]
          /\ \A i \in 1..n :
                selected_layers[i] \in {"Layer" \o ToString(i), "Layer1"}
    /\ selected_metrics \in
          {q \in SeqsUpTo(WorkerMetrics, MaxMetrics) :
              \A i, j \in 1..Len(q) : i # j => q[i] # q[j]}
    /\ land_cover_mapping_func \in LabelMappings
    /\ is_cancelled = FALSE
    /\ wpc = "init"
    /\ li = 1
    /\ mi = 1
    /\ layer_name = ""
    /\ land_cover_mapping = <<>>
    /\ layer_metrics = <<>>
    /\ data_to_write = <<>>
    /\ metric_data = <<>>
    /\ total_tasks = 0
    /\ current_task = 0
    /\ emitted = <<>>
    /\ units = <<>>
    /\ cancel_observed = FALSE
    /\ run_no = 1
    /\ previous = <<>>
    /\ memo = EmptyDict

SharedNameSpec == SharedNameInit /\ [][WorkerNext]_vars

LayerIx == 1..Len(selected_layers)

\* the metric names whose function returned for the layer at position i
ReturnedFor(i) ==
    {UnitMetricName(k) : k \in {u \in UnitIx : units[u].layer = i
                                              /\ ~units[u].outcome.raises}}

\* the formatted value of the metric name m of the layer at position i
FormattedFor(i, m) ==
    LET k == CHOOSE u \in UnitIx : units[u].layer = i /\ UnitMetricName(u) = m
    IN FormatLayerMetricValue(units[k].outcome.value)

\* C28: when run completes, the metric_data passed to finished_calculation has
\* one key per distinct selected layer name, and the entry of every selected
\* layer holds the formatted value of exactly the metrics whose function
\* returned for that layer, a metric whose flattening raised included.
C28_PerLayerSummary ==
    Completed =>
        LET summary == emitted[Len(emitted)].summary
        IN /\ DOMAIN summary = {selected_layers[i] : i \in LayerIx}
           /\ \A i \in LayerIx :
                 /\ DOMAIN summary[selected_layers[i]] = ReturnedFor(i)
                 /\ \A m \in ReturnedFor(i) :
                       summary[selected_layers[i]][m] = FormattedFor(i, m)

(***************************************************************************)
(* ExcelExportWorker (Controllers/BackgroundTaskWorker.py).                *)
(*                                                                         *)
(* A signal is the record [signal, percent, message].  The rows are        *)
(* modelled by their number: what a row holds decides only how its cells   *)
(* are written.  Every call into xlsxwriter may raise.                     *)
(***************************************************************************)
ExportProgress(percent, message) ==
    [signal |-> "progress", percent |-> percent, message |-> message]
FinishedExport ==
    [signal |-> "finished_export", percent |-> 0, message |-> "output_path"]
\* lines 409-412: "file" is the message of line 410, "unexpected" that of line 412
ExportError(message) == [signal |-> "error", percent |-> 0, message |-> message]

\* __init__: the rows handed over
ExportInit ==
    /\ ScanIdle
    /\ WorkerIdle
    /\ ServerIdle
    /\ export_rows \in (0..MaxRows) \cup {ManyRows}
    /\ export_cancelled = FALSE
    /\ xpc = "start"
    /\ idx = 0
    /\ workbook = "none"
    /\ export_emitted = <<>>
    /\ written = 0
    /\ flag_seen = "no"

\* cancel(), called from the caller's thread at any moment
ExportCancel ==
    /\ ~export_cancelled
    /\ export_cancelled' = TRUE
    /\ UNCHANGED <<export_rows, xpc, idx, workbook, export_emitted, written,
                   flag_seen>>
    /\ UNCHANGED <<scanVars, workerVars, serverVars>>

\* lines 332-335
ExportStart ==
    /\ xpc = "start"
    /\ export_emitted' =
          Append(export_emitted, ExportProgress(10, "Creating Excel workbook..."))
    /\ IF export_cancelled
       THEN xpc' = "done" /\ flag_seen' = "before"
       ELSE xpc' = "create" /\ flag_seen' = flag_seen
    /\ UNCHANGED <<export_rows, export_cancelled, idx, workbook, written>>
    /\ UNCHANGED <<scanVars, workerVars, serverVars>>

\* lines 337-363: the workbook, the worksheet, the formats, the headers
ExportCreate ==
    /\ xpc = "create"
    /\ workbook' = "open"
    /\ export_emitted' =
          export_emitted \o << ExportProgress(20, "Formatting Excel worksheet..."),
                               ExportProgress(30, "Writing headers...") >>
    /\ xpc' = "headers"
    /\ UNCHANGED <<export_rows, export_cancelled, idx, written, flag_seen>>
    /\ UNCHANGED <<scanVars, workerVars, serverVars>>

\* lines 337-363 raise: in xlsxwriter.Workbook, in the formatting, or in
\* write_row; lines 411-412
ExportCreateRaises ==
    /\ xpc = "create"
    /\ \E stage \in {"workbook", "format", "headers"} :
          /\ workbook' = IF stage = "workbook" THEN "none" ELSE "open"
          /\ export_emitted' =
                export_emitted
                \o (IF stage = "workbook" THEN <<>>
                    ELSE <<ExportProgress(20, "Formatting Excel worksheet...")>>)
                \o (IF stage = "headers"
                    THEN <<ExportProgress(30, "Writing headers...")>> ELSE <<>>)
                \o <<ExportError("unexpected")>>
    /\ xpc' = "done"
    /\ UNCHANGED <<export_rows, export_cancelled, idx, written, flag_seen>>
    /\ UNCHANGED <<scanVars, workerVars, serverVars>>

\* workbook.close() and return, of lines 366-367 and 373-374: close may raise,
\* which lines 409-412 turn into an error
CloseAndReturn ==
    /\ flag_seen' = "after"
    /\ xpc' = "done"
    /\ \/ /\ workbook' = "closed"
          /\ export_emitted' = export_emitted
       \/ /\ workbook' = "open"
          /\ \E message \in {"file", "unexpected"} :
                export_emitted' = Append(export_emitted, ExportError(message))

\* lines 365-370
ExportHeadersChecked ==
    /\ xpc = "headers"
    /\ IF export_cancelled
       THEN CloseAndReturn /\ idx' = idx
       ELSE /\ xpc' = "rows"
            /\ idx' = 0
            /\ UNCHANGED <<workbook, export_emitted, flag_seen>>
    /\ UNCHANGED <<export_rows, export_cancelled, written>>
    /\ UNCHANGED <<scanVars, workerVars, serverVars>>

\* variant: the percentage of the rows done, not scaled into 30..90
RowProgressUnscaled(i, total_rows) == ((i + 1) * 100) \div total_rows

\* progress_percent = 30 + int((idx / total_rows) * 60)
RowProgress(i, total_rows) == 30 + (i * 60) \div total_rows

\* lines 377-379; max(1, total_rows // 10) is the stride
RowProgressEmitted ==
    IF idx % (IF export_rows \div 10 > 1 THEN export_rows \div 10 ELSE 1) = 0
    THEN << ExportProgress(RowProgress(idx, export_rows), "Writing row...") >>
    ELSE <<>>

\* lines 372-374: the flag is found set at the top of the row loop
ExportRowCancelled ==
    /\ xpc = "rows"
    /\ idx < export_rows
    /\ export_cancelled
    /\ CloseAndReturn
    /\ UNCHANGED <<export_rows, export_cancelled, idx, written>>
    /\ UNCHANGED <<scanVars, workerVars, serverVars>>

\* lines 371-401: one row is written
ExportRow ==
    /\ xpc = "rows"
    /\ idx < export_rows
    /\ ~export_cancelled
    /\ export_emitted' = export_emitted \o RowProgressEmitted
    /\ written' = written + 1
    /\ idx' = idx + 1
    /\ UNCHANGED <<export_rows, export_cancelled, xpc, workbook, flag_seen>>
    /\ UNCHANGED <<scanVars, workerVars, serverVars>>

\* lines 381-401 raise (the unpacking of the row, a write); lines 411-412
ExportRowRaises ==
    /\ xpc = "rows"
    /\ idx < export_rows
    /\ ~export_cancelled
    /\ export_emitted' =
          export_emitted \o RowProgressEmitted
          \o <<ExportError("unexpected")>>
    /\ xpc' = "done"
    /\ UNCHANGED <<export_rows, export_cancelled, idx, workbook, written,
                   flag_seen>>
    /\ UNCHANGED <<scanVars, workerVars, serverVars>>

\* lines 403-407
ExportFinish ==
    /\ xpc = "rows"
    /\ idx >= export_rows
    /\ workbook' = "closed"
    /\ export_emitted' =
          export_emitted \o << ExportProgress(95, "Finalizing Excel file..."),
                               ExportProgress(100, "Export complete!"),
                               FinishedExport >>
    /\ xpc' = "done"
    /\ UNCHANGED <<export_rows, export_cancelled, idx, written, flag_seen>>
    /\ UNCHANGED <<scanVars, workerVars, serverVars>>

\* line 404 raises; lines 409-412
ExportFinishRaises ==
    /\ xpc = "rows"
    /\ idx >= export_rows
    /\ \E message \in {"file", "unexpected"} :
          export_emitted' =
             export_emitted \o << ExportProgress(95, "Finalizing Excel file..."),
                                  ExportError(message) >>
    /\ xpc' = "done"
    /\ UNCHANGED <<export_rows, export_cancelled, idx, workbook, written,
                   flag_seen>>
    /\ UNCHANGED <<scanVars, workerVars, serverVars>>

ExportNext ==
    \/ ExportCancel
    \/ ExportStart
    \/ ExportCreate
    \/ ExportCreateRaises
    \/ ExportHeadersChecked
    \/ ExportRowCancelled
    \/ ExportRow
    \/ ExportRowRaises
    \/ ExportFinish
    \/ ExportFinishRaises

ExportSpec == ExportInit /\ [][ExportNext]_vars

ExportIx == 1..Len(export_emitted)
FinishedExports ==
    Cardinality({i \in ExportIx : export_emitted[i].signal = "finished_export"})
ExportErrors ==
    Cardinality({i \in ExportIx : export_emitted[i].signal = "error"})
ProgressIx == {i \in ExportIx : export_emitted[i].signal = "progress"}

\* finished_export once, last, after progress 100, every row written and the
\* workbook closed
ExportCompleted ==
    /\ FinishedExports = 1
    /\ ExportErrors = 0
    /\ Len(export_emitted) >= 2
    /\ export_emitted[Len(export_emitted)] = FinishedExport
    /\ export_emitted[Len(export_emitted) - 1].signal = "progress"
    /\ export_emitted[Len(export_emitted) - 1].percent = 100
    /\ written = export_rows
    /\ workbook = "closed"

ExportFailed == ExportErrors = 1 /\ FinishedExports = 0

\* a cancel check found the flag set and run returned silently
ExportCancelled ==
    /\ flag_seen # "no"
    /\ FinishedExports = 0
    /\ ExportErrors = 0
    /\ flag_seen = "after" => workbook = "closed"
    /\ flag_seen = "before" => workbook = "none"

ProgressOrdered ==
    /\ \A i \in ProgressIx : export_emitted[i].percent \in 10..100
    /\ \A i, j \in ProgressIx :
          i < j => export_emitted[i].percent <= export_emitted[j].percent

\* C29: ExcelExportWorker.run ends in exactly one of three ways:
\* finished_export once, after every row was written, the workbook closed and
\* progress 100 emitted; or one error and no finished_export; or, a cancel
\* check having found the flag set, neither of the two, with the workbook
\* closed if it had been created.  The progress values of a run never decrease
\* and lie within 10..100, whatever the number of rows.
C29_ExportOutcomes ==
    /\ xpc = "done" => ExactlyOneOf(ExportCompleted, ExportFailed, ExportCancelled)
    /\ xpc # "done" => (FinishedExports = 0 /\ ExportErrors = 0)
    /\ ProgressOrdered

\* a completed export of twenty rows, progress emitted for every other row
C29_Witness ==
    /\ xpc = "done"
    /\ ExportCompleted
    /\ export_rows = ManyRows
    /\ Cardinality(ProgressIx) = 15

\* a completed export of no rows
C29_WitnessEmpty ==
    /\ xpc = "done"
    /\ ExportCompleted
    /\ export_rows = 0

\* the flag was found set in the row loop, after two rows: the workbook was closed
C29_WitnessCancelled ==
    /\ xpc = "done"
    /\ ExportCancelled
    /\ flag_seen = "after"
    /\ written = 2

\* the flag was found set, and closing the workbook failed: one error
C29_WitnessCancelFailed ==
    /\ xpc = "done"
    /\ flag_seen = "after"
    /\ ExportFailed

(***************************************************************************)
(* GeoJSONExporter's local map server (Controllers/GeoJSONExporter.py).    *)
(*                                                                         *)
(* _server, _server_thread and _server_port are class attributes: one of   *)
(* each per process.  Whether a port is free is the environment's choice   *)
(* at every attempt.  The ports 8000..9000 of the source are scaled to     *)
(* FirstPort..LastPort.  export_and_generate_map is called from one        *)
(* thread, one call after the other.                                       *)
(***************************************************************************)
\* no metric is computed and no export is run while the map is served
ServerInit ==
    /\ ScanIdle
    /\ WorkerIdle
    /\ ExportIdle
    /\ ServerIdle

\* variant: start_local_server is called whether or not a server exists
ExportAndGenerateMapAlways ==
    /\ spc = "idle"
    /\ exports < MaxExports
    /\ exports' = exports + 1
    /\ \E html_result \in BOOLEAN :
          IF html_result
          THEN /\ spc' = "try"
               /\ depth' = 1
               /\ tried' = <<>>
               /\ server_result' = "none"
          ELSE UNCHANGED <<spc, depth, tried, server_result>>
    /\ UNCHANGED <<server_port, server, bound_ports>>
    /\ UNCHANGED <<scanVars, workerVars, exportVars>>

\* export_and_generate_map, lines 1212-1220: the map was generated or not;
\* start_local_server is called if _server is None
ExportAndGenerateMap ==
    /\ spc = "idle"
    /\ exports < MaxExports
    /\ exports' = exports + 1
    /\ \E html_result \in BOOLEAN :
          IF html_result /\ server = NoServer
          THEN /\ spc' = "try"
               /\ depth' = 1
               /\ tried' = <<>>
               /\ server_result' = "none"
          ELSE UNCHANGED <<spc, depth, tried, server_result>>
    /\ UNCHANGED <<server_port, server, bound_ports>>
    /\ UNCHANGED <<scanVars, workerVars, exportVars>>

\* lines 51-68: the server is bound and its thread started; True is returned
\* through every nested call
AttemptBinds ==
    /\ spc = "try"
    /\ server' = server_port
    /\ bound_ports' = Append(bound_ports, server_port)
    /\ tried' = Append(tried, [port |-> server_port, outcome |-> "bound"])
    /\ server_result' = "True"
    /\ depth' = 0
    /\ spc' = "idle"
    /\ UNCHANGED <<server_port, exports>>
    /\ UNCHANGED <<scanVars, workerVars, exportVars>>

\* lines 69-73: os.chdir or HTTPServer raises OSError below the last port
AttemptRetries ==
    /\ spc = "try"
    /\ server_port < LastPort
    /\ server_port' = server_port + 1
    /\ tried' = Append(tried, [port |-> server_port, outcome |-> "OSError"])
    /\ depth' = depth + 1
    /\ UNCHANGED <<server, spc, server_result, bound_ports, exports>>
    /\ UNCHANGED <<scanVars, workerVars, exportVars>>

\* lines 69-75: os.chdir or HTTPServer raises OSError at the last port
AttemptGivesUp ==
    /\ spc = "try"
    /\ server_port >= LastPort
    /\ tried' = Append(tried, [port |-> server_port, outcome |-> "OSError"])
    /\ server_result' = "False"
    /\ depth' = 0
    /\ spc' = "idle"
    /\ UNCHANGED <<server_port, server, bound_ports, exports>>
    /\ UNCHANGED <<scanVars, workerVars, exportVars>>

\* lines 76-78: another exception: before the server is bound, or from
\* threading.Thread / start() once GeoJSONExporter._server is assigned
AttemptRaises ==
    /\ spc = "try"
    /\ \E assigned \in BOOLEAN :
          /\ server' = IF assigned THEN server_port ELSE server
          /\ bound_ports' = IF assigned THEN Append(bound_ports, server_port)
                            ELSE bound_ports
          /\ tried' = Append(tried,
                             [port |-> server_port,
                              outcome |-> IF assigned
                                          THEN "bound, then Exception"
                                          ELSE "Exception"])
    /\ server_result' = "False"
    /\ depth' = 0
    /\ spc' = "idle"
    /\ UNCHANGED <<server_port, exports>>
    /\ UNCHANGED <<scanVars, workerVars, exportVars>>

ServerNext ==
    \/ ExportAndGenerateMap
    \/ AttemptBinds
    \/ AttemptRetries
    \/ AttemptGivesUp
    \/ AttemptRaises

\* a call that has started returns or raises: the interpreter runs it
FairServerSpec ==
    ServerInit /\ [][ServerNext]_vars
    /\ WF_vars(AttemptBinds \/ AttemptRetries \/ AttemptGivesUp
               \/ AttemptRaises)

TriedIx == 1..Len(tried)
Binds(i) == tried[i].outcome \in {"bound", "bound, then Exception"}

\* an OSError below the last port is followed by an attempt at the next port
OSErrorRetried ==
    \A i \in TriedIx :
        (tried[i].outcome = "OSError" /\ tried[i].port < LastPort) =>
            IF i < Len(tried) THEN tried[i + 1].port = tried[i].port + 1
            ELSE spc = "try" /\ server_port = tried[i].port + 1

PortStep == server_port' \in {server_port, server_port + 1}
PortIncrementedByOSError ==
    server_port' # server_port =>
        /\ Len(tried') = Len(tried) + 1
        /\ tried'[Len(tried')] = [port |-> server_port, outcome |-> "OSError"]

\* start_local_server is entered from export_and_generate_map only while
\* _server is None
StartedWhileNone == (spc = "idle" /\ spc' = "try") => server = NoServer

\* True is returned by the attempt that bound the server, at once
TrueWhenBound ==
    /\ \A i \in TriedIx :
          Binds(i) => (i = Len(tried) /\ server_result = "True"
                       /\ server = tried[i].port)
    /\ server_result = "True" => (Len(tried) > 0 /\ Binds(Len(tried))
                                  /\ server # NoServer)

\* False is returned by the failed attempt at the last port only
FalseAtLastPort ==
    server_result = "False" =>
        /\ Len(tried) > 0
        /\ tried[Len(tried)] = [port |-> LastPort, outcome |-> "OSError"]

\* True is returned by the attempt that bound the server and started its
\* thread, at once
TrueWhenStarted ==
    /\ \A i \in TriedIx :
          tried[i].outcome = "bound" =>
             (i = Len(tried) /\ server_result = "True" /\ server = tried[i].port)
    /\ server_result = "True" =>
          (Len(tried) > 0 /\ tried[Len(tried)].outcome = "bound"
           /\ server # NoServer)

\* False is returned by the failed attempt at the last port, or by an attempt
\* that raised something else than OSError
FalseAtLastPortOrException ==
    server_result = "False" =>
        /\ Len(tried) > 0
        /\ \/ tried[Len(tried)] = [port |-> LastPort, outcome |-> "OSError"]
           \/ tried[Len(tried)].outcome \in {"Exception", "bound, then Exception"}
        /\ \A i \in 1..(Len(tried) - 1) : tried[i].outcome = "OSError"

C30_WitnessGivesUp ==
    /\ spc = "idle"
    /\ server_result = "False"
    /\ Len(tried) = LastPort - FirstPort + 1
    /\ tried[Len(tried)] = [port |-> LastPort, outcome |-> "OSError"]
    /\ server = NoServer
    /\ server_port = LastPort

====
